---- MODULE Spec2Model ----
(***************************************************************************)
(* Marker-based sync engine of tab-sync-api: SyncService.getMarker and     *)
(* SyncService.processEvents over the sync_markers, events and             *)
(* session_restorations tables.  Each service call is one atomic action    *)
(* (the calls are issued one after the other on one sqlite connection).    *)
(***************************************************************************)
EXTENDS Integers, Sequences, FiniteSets, Bags, TLC

\* ------------------------------------------------------------- bounds
MaxBatch == 2        \* longest uploaded batch
MaxRows == 2         \* rows the events table may hold
MaxRest == 1         \* longest restorationMetadata list
MaxRestRows == 2     \* rows the session_restorations table may hold
MaxRestore == 2      \* longest restorationMetadata list of the restoration uploads
MaxWindows == 2      \* most windows of a supplied session
MaxTabs == 2         \* most tabs of a supplied window
MaxSessions == 2     \* session ids generated in a behaviour

\* ------------------------------------------------------------- values
Undefined == "undefined"
Null == "null"

Users == {1, 2}
Instances == {"I1", "I2"}
\* the (user, instance) the client under study syncs, and the others sharing the store
Focus == <<1, "I1">>
Others == {<<2, "I1">>, <<1, "I2">>}
Pairs == {Focus} \cup Others
DocIds == {Undefined, "d1", "d2"}
Timestamps == {1, 2}
SessionIds == {"s1"}
\* an optional number is <<>> when absent (undefined / NULL) and <<n>> otherwise
Absent == <<>>
WindowIds == {Absent, <<7>>}

\* JavaScript truthiness of an optional string field
Truthy(x) == x \notin {Undefined, Null, ""}

\* JavaScript  n || null  for an optional number
NumOrNull(w) == IF w = Absent \/ w = <<0>> THEN Absent ELSE w

\* JavaScript  x || null
OrNull(x) == IF Truthy(x) THEN x ELSE Null

\* JavaScript  x || undefined
OrUndefined(x) == IF Truthy(x) THEN x ELSE Undefined

Max2(a, b) == IF a >= b THEN a ELSE b

\* Math.max(...events.map((e) => e.timestamp)) of a non-empty batch
MathMax(evts) == CHOOSE t \in {evts[k].timestamp : k \in DOMAIN evts} :
                    \A k \in DOMAIN evts : evts[k].timestamp <= t

SeqsUpTo(S, n) == UNION {[1..k -> S] : k \in 0..n}

\* ------------------------------------------------------------- state
VARIABLES
    events,         \* bag of rows of table events
    markers,        \* set of rows of table sync_markers
    restorations,   \* bag of rows of table session_restorations
    last,           \* the call just served and its response, Idle once delivered
    asked,          \* the (user, instance) pairs getMarker has answered
    seen,           \* per (user, instance): largest timestamp an ordered client uploaded
    inflight,       \* per request slot: the getMarker call suspended at an await
    sessions,       \* set of rows of table sessions
    session_windows,\* set of rows of table session_windows
    session_tabs,   \* set of rows of table session_tabs
    sqlite_sequence,\* last AUTOINCREMENT id handed out, per session table
    now,            \* Date.now(): number of session ids generated so far
    conn            \* the one sqlite connection: its open transaction, if any

sessionVars == <<sessions, session_windows, session_tabs, sqlite_sequence, now>>

syncVars == <<events, markers, restorations, asked, seen, inflight>>

vars == <<events, markers, restorations, last, asked, seen, inflight, sessionVars, conn>>

Store == [events |-> events, markers |-> markers, restorations |-> restorations]

\* ------------------------------------------------------------- store faults
\* What the store answers to the statements of one call: per event INSERT
\* "ok" | "soft" (constraint violation) | "fatal" (store-level failure), per
\* restoration INSERT ok or not, and the one statement outside the per-item
\* try blocks that rejects ("none" | "begin" | "marker" | "commit").
FaultKinds == {"ok", "soft", "fatal"}
HardSites == {"none", "begin", "marker", "commit"}

NoFault(evts, meta) ==
    [evt |-> [k \in DOMAIN evts |-> "ok"],
     rest |-> [j \in DOMAIN meta |-> TRUE],
     hard |-> "none"]

\* ------------------------------------------------------------- tables
\* the lookup binding instanceId to both placeholders
EventExists_WrongColumn(evs, instanceId, documentId) ==
    \E r \in DOMAIN evs : r.instance_id = instanceId /\ r.document_id = instanceId

\* the lookup without its instance_id condition
EventExists_AnyInstance(evs, instanceId, documentId) ==
    \E r \in DOMAIN evs : r.document_id = documentId

\* SELECT id FROM events WHERE instance_id = ? AND document_id = ? LIMIT 1
EventExists(evs, instanceId, documentId) ==
    \E r \in DOMAIN evs : r.instance_id = instanceId /\ r.document_id = documentId

\* the row insertEvent binds for one event
EventRow(userId, instanceId, event) ==
    [user_id |-> userId, instance_id |-> instanceId,
     document_id |-> OrNull(event.documentId), timestamp |-> event.timestamp]

\* SELECT COUNT(*) as count FROM events WHERE user_id = ? AND instance_id = ?
CountEvents(evs, userId, instanceId) ==
    BagCardinality([r \in {x \in DOMAIN evs :
                              x.user_id = userId /\ x.instance_id = instanceId}
                       |-> evs[r]])

\* the count of the events at or after the cursor
CountEventsAfter_Inclusive(evs, userId, instanceId, lastEventTimestamp) ==
    BagCardinality([r \in {x \in DOMAIN evs :
                              /\ x.user_id = userId /\ x.instance_id = instanceId
                              /\ x.timestamp >= lastEventTimestamp}
                       |-> evs[r]])

\* SELECT COUNT(*) as count FROM events
\*   WHERE user_id = ? AND instance_id = ? AND timestamp > ?
CountEventsAfter(evs, userId, instanceId, lastEventTimestamp) ==
    BagCardinality([r \in {x \in DOMAIN evs :
                              /\ x.user_id = userId /\ x.instance_id = instanceId
                              /\ x.timestamp > lastEventTimestamp}
                       |-> evs[r]])

\* SELECT * FROM sync_markers WHERE user_id = ? AND instance_id = ?
MarkerRows(mks, userId, instanceId) ==
    {m \in mks : m.user_id = userId /\ m.instance_id = instanceId}

\* UPDATE sync_markers SET last_event_timestamp = ? WHERE user_id = ? AND instance_id = ?
updateMarker(mks, userId, instanceId, maxTimestamp) ==
    {IF m.user_id = userId /\ m.instance_id = instanceId
        THEN [m EXCEPT !.last_event_timestamp = maxTimestamp]
        ELSE m : m \in mks}

\* the INSERT of the initial marker into a table without UNIQUE(user_id, instance_id)
InsertMarker_NoUnique(mks, userId, instanceId) ==
    [ok |-> TRUE,
     markers |-> mks \cup {[user_id |-> userId, instance_id |-> instanceId,
                            last_event_timestamp |-> 0, last_session_id |-> Null]}]

\* INSERT INTO sync_markers (user_id, instance_id, last_event_timestamp) VALUES (?, ?, 0)
\* on a table declared UNIQUE(user_id, instance_id)
InsertMarker(mks, userId, instanceId) ==
    IF MarkerRows(mks, userId, instanceId) # {}
    THEN [ok |-> FALSE, markers |-> mks]
    ELSE [ok |-> TRUE,
          markers |-> mks \cup {[user_id |-> userId, instance_id |-> instanceId,
                                 last_event_timestamp |-> 0, last_session_id |-> Null]}]

\* ------------------------------------------------------------- getMarker
\* getMarker without the INSERT of the initial marker
getMarker_NoInsert(st, instanceId, userId) ==
    LET found == MarkerRows(st.markers, userId, instanceId)
        marker == IF found = {} THEN [last_event_timestamp |-> 0, last_session_id |-> Null]
                  ELSE CHOOSE m \in found : TRUE
    IN [events |-> st.events, restorations |-> st.restorations,
        markers |-> st.markers,
        result |-> [instanceId |-> instanceId,
                    lastEventTimestamp |-> marker.last_event_timestamp,
                    lastSessionId |-> OrUndefined(marker.last_session_id),
                    firstSync |-> found = {},
                    eventCountToSync |->
                        CountEventsAfter(st.events, userId, instanceId,
                                         marker.last_event_timestamp)]]

\* getMarker writing its initial marker with INSERT OR REPLACE on every call
getMarker_Replace(st, instanceId, userId) ==
    LET found == MarkerRows(st.markers, userId, instanceId)
        marker == IF found = {} THEN [last_event_timestamp |-> 0, last_session_id |-> Null]
                  ELSE CHOOSE m \in found : TRUE
    IN [events |-> st.events, restorations |-> st.restorations,
        markers |-> (st.markers \ found) \cup
                 {[user_id |-> userId, instance_id |-> instanceId,
                   last_event_timestamp |-> 0, last_session_id |-> Null]},
        result |-> [instanceId |-> instanceId,
                    lastEventTimestamp |-> marker.last_event_timestamp,
                    lastSessionId |-> OrUndefined(marker.last_session_id),
                    firstSync |-> found = {},
                    eventCountToSync |->
                        CountEventsAfter(st.events, userId, instanceId,
                                         marker.last_event_timestamp)]]

getMarker(st, instanceId, userId) ==
    LET found == MarkerRows(st.markers, userId, instanceId)
    IN IF found = {}
       THEN [events |-> st.events, restorations |-> st.restorations,
             markers |-> st.markers \cup
                 {[user_id |-> userId, instance_id |-> instanceId,
                   last_event_timestamp |-> 0, last_session_id |-> Null]},
             result |-> [instanceId |-> instanceId,
                         lastEventTimestamp |-> 0,
                         lastSessionId |-> Undefined,
                         firstSync |-> TRUE,
                         eventCountToSync |->
                             CountEvents(st.events, userId, instanceId)]]
       ELSE LET marker == CHOOSE m \in found : TRUE
            IN [events |-> st.events, restorations |-> st.restorations,
                markers |-> st.markers,
                result |-> [instanceId |-> instanceId,
                            lastEventTimestamp |-> marker.last_event_timestamp,
                            lastSessionId |-> OrUndefined(marker.last_session_id),
                            firstSync |-> FALSE,
                            eventCountToSync |->
                                CountEventsAfter(st.events, userId, instanceId,
                                                 marker.last_event_timestamp)]]

\* ------------------------------------------------------------- processEvents
\* the for loop leaving the batch at the first event whose INSERT fails
RECURSIVE EventLoop_Break(_, _, _, _, _, _)
EventLoop_Break(acc, userId, instanceId, evts, fault, k) ==
    IF k > Len(evts) THEN acc
    ELSE LET event == evts[k]
         IN IF Truthy(event.documentId)
               /\ EventExists(acc.events, instanceId, event.documentId)
            THEN EventLoop_Break([acc EXCEPT !.duplicates = @ + 1],
                                 userId, instanceId, evts, fault, k + 1)
            ELSE IF fault.evt[k] # "ok"
            THEN [acc EXCEPT !.errors = Append(@, fault.evt[k])]
            ELSE EventLoop_Break(
                   [acc EXCEPT
                      !.events = @ (+) SetToBag({EventRow(userId, instanceId, event)}),
                      !.processed = @ + 1],
                   userId, instanceId, evts, fault, k + 1)

\* the for loop looking every event up, an absent documentId as NULL
RECURSIVE EventLoop_DedupNull(_, _, _, _, _, _)
EventLoop_DedupNull(acc, userId, instanceId, evts, fault, k) ==
    IF k > Len(evts) THEN acc
    ELSE LET event == evts[k]
             next ==
               IF EventExists(acc.events, instanceId, OrNull(event.documentId))
               THEN [acc EXCEPT !.duplicates = @ + 1]
               ELSE IF fault.evt[k] # "ok"
               THEN [acc EXCEPT !.errors = Append(@, fault.evt[k])]
               ELSE [acc EXCEPT
                       !.events = @ (+) SetToBag({EventRow(userId, instanceId, event)}),
                       !.processed = @ + 1]
         IN EventLoop_DedupNull(next, userId, instanceId, evts, fault, k + 1)

\* the for loop counting an event as processed before its INSERT has resolved
RECURSIVE EventLoop_CountsFailed(_, _, _, _, _, _)
EventLoop_CountsFailed(acc, userId, instanceId, evts, fault, k) ==
    IF k > Len(evts) THEN acc
    ELSE LET event == evts[k]
             next ==
               IF Truthy(event.documentId)
                  /\ EventExists(acc.events, instanceId, event.documentId)
               THEN [acc EXCEPT !.duplicates = @ + 1]
               ELSE IF fault.evt[k] # "ok"
               THEN [acc EXCEPT !.processed = @ + 1,
                                !.errors = Append(@, fault.evt[k])]
               ELSE [acc EXCEPT
                       !.events = @ (+) SetToBag({EventRow(userId, instanceId, event)}),
                       !.processed = @ + 1]
         IN EventLoop_CountsFailed(next, userId, instanceId, evts, fault, k + 1)

\* the for loop over the batch: acc = [events, processed, duplicates, errors]
RECURSIVE EventLoop(_, _, _, _, _, _)
EventLoop(acc, userId, instanceId, evts, fault, k) ==
    IF k > Len(evts) THEN acc
    ELSE LET event == evts[k]
             next ==
               IF Truthy(event.documentId)
                  /\ EventExists(acc.events, instanceId, event.documentId)
               THEN [acc EXCEPT !.duplicates = @ + 1]
               ELSE IF fault.evt[k] # "ok"
               THEN [acc EXCEPT !.errors = Append(@, fault.evt[k])]
               ELSE [acc EXCEPT
                       !.events = @ (+) SetToBag({EventRow(userId, instanceId, event)}),
                       !.processed = @ + 1]
         IN EventLoop(next, userId, instanceId, evts, fault, k + 1)

\* handleRestorations leaving its loop at the first rejected INSERT
RECURSIVE handleRestorations_Abort(_, _, _, _, _, _)
handleRestorations_Abort(acc, userId, instanceId, restorationData, fault, j) ==
    IF j > Len(restorationData) \/ ~fault.rest[j] THEN acc
    ELSE LET restoration == restorationData[j]
             row == [user_id |-> userId, instance_id |-> instanceId,
                     original_session_id |-> restoration.originalSessionId,
                     new_window_id |-> NumOrNull(restoration.newWindowId)]
         IN handleRestorations_Abort(
              [restorations |-> acc.restorations (+) SetToBag({row}),
               count |-> acc.count + 1],
              userId, instanceId, restorationData, fault, j + 1)

\* handleRestorations: acc = [restorations, count]
RECURSIVE handleRestorations(_, _, _, _, _, _)
handleRestorations(acc, userId, instanceId, restorationData, fault, j) ==
    IF j > Len(restorationData) THEN acc
    ELSE LET restoration == restorationData[j]
             row == [user_id |-> userId, instance_id |-> instanceId,
                     original_session_id |-> restoration.originalSessionId,
                     new_window_id |-> NumOrNull(restoration.newWindowId)]
             next ==
               IF fault.rest[j]
               THEN [restorations |-> acc.restorations (+) SetToBag({row}),
                     count |-> acc.count + 1]
               ELSE acc
         IN handleRestorations(next, userId, instanceId, restorationData, fault, j + 1)

SyncMessage(errors) ==
    IF Len(errors) > 0 THEN [text |-> "Processed with N errors", N |-> Len(errors)]
    ELSE [text |-> "Events synced successfully", N |-> 0]

Thrown(st, site) ==
    [events |-> st.events, markers |-> st.markers, restorations |-> st.restorations,
     threw |-> TRUE, result |-> [error |-> site]]

processEvents(st, instanceId, userId, evts, meta, fault) ==
    IF fault.hard = "begin" THEN Thrown(st, "begin")
    ELSE
    LET loop == EventLoop([events |-> st.events, processed |-> 0,
                           duplicates |-> 0, errors |-> <<>>],
                          userId, instanceId, evts, fault, 1)
        rest == IF Len(meta) > 0
                THEN handleRestorations([restorations |-> st.restorations, count |-> 0],
                                        userId, instanceId, meta, fault, 1)
                ELSE [restorations |-> st.restorations, count |-> 0]
        mks == IF Len(evts) > 0
               THEN updateMarker(st.markers, userId, instanceId, MathMax(evts))
               ELSE st.markers
    IN IF Len(evts) > 0 /\ fault.hard = "marker" THEN Thrown(st, "marker")
       ELSE IF fault.hard = "commit" THEN Thrown(st, "commit")
       ELSE [events |-> loop.events, markers |-> mks,
             restorations |-> rest.restorations,
             threw |-> FALSE,
             result |-> [instanceId |-> instanceId,
                         eventsReceived |-> Len(evts),
                         eventsProcessed |-> loop.processed,
                         duplicateCount |-> loop.duplicates,
                         restorationMappings |-> rest.count,
                         message |-> SyncMessage(loop.errors)]]

\* ------------------------------------------------------------- session tables
\* JavaScript  n || d  for an optional number, bound to a NOT NULL column
NumOr(w, d) == IF w = Absent \/ w = <<0>> THEN d ELSE w[1]

\* JavaScript  b ? 1 : 0  for an optional boolean
Bit(b) == IF b = <<TRUE>> THEN 1 ELSE 0

\* JavaScript  x || 'normal'
OrNormal(x) == IF Truthy(x) THEN x ELSE "normal"

\* JSON.stringify of a list of strings, and JSON.parse of the stored text
JSONstringify(tags) == <<"json", tags>>
JSONparse(text) == text[2]

\* `session-${Date.now()}-${random}`: the id generated at clock value t
NewSessionId(t) == <<"session", t>>

SessionStore ==
    [sessions |-> sessions, session_windows |-> session_windows,
     session_tabs |-> session_tabs, sqlite_sequence |-> sqlite_sequence]

\* the row dbGet resolves with: the first match in rowid order
FirstRow(rows) == CHOOSE r \in rows : \A q \in rows : r.id <= q.id

\* the row INSERT INTO session_tabs binds for one tab
TabRow(id, sessionWindowId, tab) ==
    [id |-> id, session_window_id |-> sessionWindowId,
     tab_id |-> NumOr(tab.id, 0),
     url |-> tab.url,
     title |-> OrNull(tab.title),
     tab_index |-> NumOr(tab.index, 0),
     active |-> Bit(tab.active),
     pinned |-> Bit(tab.pinned),
     group_id |-> NumOrNull(tab.groupId),
     fav_icon_url |-> OrNull(tab.favIconUrl)]

\* the row INSERT INTO session_windows binds for one window
WindowRow(id, sessionRowId, window, windowOrder) ==
    [id |-> id, session_id |-> sessionRowId,
     window_id |-> NumOr(window.id, windowOrder),
     focused |-> Bit(window.focused),
     incognito |-> Bit(window.incognito),
     type |-> OrNormal(window.type),
     window_order |-> windowOrder]

\* the row INSERT INTO sessions binds; tags absent is the empty list (tags || [])
SessionRow(id, userId, instanceId, sessionData, sessionId, capturedAt) ==
    [id |-> id, user_id |-> userId, session_id |-> sessionId,
     instance_id |-> instanceId,
     name |-> sessionData.name,
     description |-> OrNull(sessionData.description),
     tags |-> JSONstringify(sessionData.tags),
     captured_at |-> capturedAt,
     tab_count |-> NumOr(sessionData.totalTabs, 0),
     window_count |-> NumOr(sessionData.totalWindows, 0)]

\* ------------------------------------------------------------- createSession
\* The statements of one createSession are numbered in the order they are
\* issued (1 BEGIN, 2 INSERT sessions, then each window's INSERT followed by
\* its tabs' INSERTs, last COMMIT); fault is the number of the statement the
\* store rejects, 0 for none.  A tab without url violates NOT NULL.
\* acc = [session_windows, session_tabs, sqlite_sequence, stmt, failed]
RECURSIVE TabLoop(_, _, _, _, _)
TabLoop(acc, sessionWindowId, tabs, fault, k) ==
    IF acc.failed \/ k > Len(tabs) THEN acc
    ELSE LET tab == tabs[k]
             id == acc.sqlite_sequence.session_tabs + 1
         IN IF acc.stmt = fault \/ ~Truthy(tab.url)
            THEN [acc EXCEPT !.failed = TRUE]
            ELSE TabLoop(
                   [acc EXCEPT
                      !.session_tabs = @ \cup {TabRow(id, sessionWindowId, tab)},
                      !.sqlite_sequence.session_tabs = id,
                      !.stmt = @ + 1],
                   sessionWindowId, tabs, fault, k + 1)

RECURSIVE WindowLoop(_, _, _, _, _)
WindowLoop(acc, sessionRowId, windows, fault, windowOrder) ==
    IF acc.failed \/ windowOrder >= Len(windows) THEN acc
    ELSE LET window == windows[windowOrder + 1]
             id == acc.sqlite_sequence.session_windows + 1
             inserted ==
               [acc EXCEPT
                  !.session_windows =
                      @ \cup {WindowRow(id, sessionRowId, window, windowOrder)},
                  !.sqlite_sequence.session_windows = id,
                  !.stmt = @ + 1]
             sessionWindow ==
               FirstRow({w \in inserted.session_windows :
                            /\ w.session_id = sessionRowId
                            /\ w.window_order = windowOrder})
         IN IF acc.stmt = fault
            THEN [acc EXCEPT !.failed = TRUE]
            ELSE WindowLoop(TabLoop(inserted, sessionWindow.id, window.tabs, fault, 1),
                            sessionRowId, windows, fault, windowOrder + 1)

\* the call throws; a statement after BEGIN is rolled back
SessionThrown(db, site) ==
    [sessions |-> db.sessions, session_windows |-> db.session_windows,
     session_tabs |-> db.session_tabs, sqlite_sequence |-> db.sqlite_sequence,
     threw |-> TRUE, result |-> [error |-> site]]

\* createSession that rethrows a failure without ROLLBACK, the statements
\* already issued staying in the store
createSession_NoRollback(db, userId, instanceId, sessionData, sessionId, fault) ==
    IF fault = 1 THEN SessionThrown(db, "begin")
    ELSE IF fault = 2
            \/ \E r \in db.sessions : r.user_id = userId /\ r.session_id = sessionId
    THEN SessionThrown(db, "session")
    ELSE
    LET id == db.sqlite_sequence.sessions + 1
        stored == db.sessions \cup
                    {SessionRow(id, userId, instanceId, sessionData, sessionId, sessionId[2])}
        session == FirstRow({r \in stored : r.session_id = sessionId})
        loop == WindowLoop(
                  [session_windows |-> db.session_windows,
                   session_tabs |-> db.session_tabs,
                   sqlite_sequence |-> [db.sqlite_sequence EXCEPT !.sessions = id],
                   stmt |-> 3, failed |-> FALSE],
                  session.id, sessionData.windows, fault, 0)
    IN [sessions |-> stored, session_windows |-> loop.session_windows,
        session_tabs |-> loop.session_tabs, sqlite_sequence |-> loop.sqlite_sequence,
        threw |-> loop.failed \/ loop.stmt = fault,
        result |-> IF loop.failed \/ loop.stmt = fault THEN [error |-> "rows"]
                   ELSE [sessionId |-> sessionId, name |-> sessionData.name,
                         description |-> sessionData.description,
                         tags |-> sessionData.tags,
                         totalTabs |-> sessionData.totalTabs,
                         totalWindows |-> sessionData.totalWindows]]

createSession(db, userId, instanceId, sessionData, sessionId, fault) ==
    IF fault = 1 THEN SessionThrown(db, "begin")
    ELSE IF fault = 2
            \/ \E r \in db.sessions : r.user_id = userId /\ r.session_id = sessionId
    THEN SessionThrown(db, "session")
    ELSE
    LET id == db.sqlite_sequence.sessions + 1
        stored == db.sessions \cup
                    {SessionRow(id, userId, instanceId, sessionData, sessionId, sessionId[2])}
        session == FirstRow({r \in stored : r.session_id = sessionId})
        loop == WindowLoop(
                  [session_windows |-> db.session_windows,
                   session_tabs |-> db.session_tabs,
                   sqlite_sequence |-> [db.sqlite_sequence EXCEPT !.sessions = id],
                   stmt |-> 3, failed |-> FALSE],
                  session.id, sessionData.windows, fault, 0)
    IN IF loop.failed THEN SessionThrown(db, "rows")
       ELSE IF loop.stmt = fault THEN SessionThrown(db, "commit")
       ELSE [sessions |-> stored, session_windows |-> loop.session_windows,
             session_tabs |-> loop.session_tabs,
             sqlite_sequence |-> loop.sqlite_sequence,
             threw |-> FALSE,
             result |-> [sessionId |-> sessionId, name |-> sessionData.name,
                         description |-> sessionData.description,
                         tags |-> sessionData.tags,
                         totalTabs |-> sessionData.totalTabs,
                         totalWindows |-> sessionData.totalWindows]]

\* the number of statements createSession issues for sessionData
RECURSIVE CountTabs(_)
CountTabs(windows) ==
    IF windows = <<>> THEN 0 ELSE Len(Head(windows).tabs) + CountTabs(Tail(windows))
Statements(sessionData) == 3 + Len(sessionData.windows) + CountTabs(sessionData.windows)

\* ------------------------------------------------------------- getSession
\* the orders in which SELECT ... ORDER BY may return rows: every arrangement
\* of the rows that ascends in the sort column (rows with equal values come
\* in an order SQL leaves open)
Arrangements(rows) ==
    {f \in [1..Cardinality(rows) -> rows] :
        \A i, j \in 1..Cardinality(rows) : i # j => f[i] # f[j]}

OrderByWindowOrder(rows) ==
    {f \in Arrangements(rows) :
        \A i, j \in DOMAIN f : i < j => f[i].window_order <= f[j].window_order}

OrderByTabIndex(rows) ==
    {f \in Arrangements(rows) :
        \A i, j \in DOMAIN f : i < j => f[i].tab_index <= f[j].tab_index}

\* tabs.map((t) => ({tabId: t.tab_id, ...}))
TabView(t) ==
    [tabId |-> t.tab_id, url |-> t.url, title |-> t.title, index |-> t.tab_index,
     active |-> t.active # 0, pinned |-> t.pinned # 0,
     groupId |-> t.group_id, favIconUrl |-> t.fav_icon_url]

\* windows.map((w) => ({windowId: w.window_id, ...})), tabs the rows in the order read
WindowView(w, tabs) ==
    [windowId |-> w.window_id, focused |-> w.focused # 0,
     incognito |-> w.incognito # 0, type |-> w.type,
     tabs |-> [k \in DOMAIN tabs |-> TabView(tabs[k])]]

\* getSession matching the session by session_id alone
getSession_AnyUser(db, userId, sessionId) ==
    LET found == {r \in db.sessions : r.session_id = sessionId}
    IN IF found = {} THEN {[threw |-> FALSE, result |-> [found |-> FALSE]]}
       ELSE LET session == FirstRow(found)
                mine == {w \in db.session_windows : w.session_id = session.id}
                TabsOf(w) == {t \in db.session_tabs : t.session_window_id = w.id}
                reads == {f \in [mine -> UNION {OrderByTabIndex(TabsOf(w)) : w \in mine}] :
                             \A w \in mine : f[w] \in OrderByTabIndex(TabsOf(w))}
            IN {[threw |-> FALSE,
                 result |-> [found |-> TRUE,
                             sessionId |-> session.session_id,
                             name |-> session.name,
                             description |-> session.description,
                             tags |-> JSONparse(session.tags),
                             capturedAt |-> session.captured_at,
                             tabCount |-> session.tab_count,
                             windowCount |-> session.window_count,
                             windows |-> [k \in DOMAIN windows |->
                                            WindowView(windows[k], tabs[windows[k]])]]] :
                  windows \in OrderByWindowOrder(mine), tabs \in reads}

\* the values getSession may resolve with; found = FALSE stands for null
getSession(db, userId, sessionId) ==
    LET found == {r \in db.sessions : r.user_id = userId /\ r.session_id = sessionId}
    IN IF found = {} THEN {[threw |-> FALSE, result |-> [found |-> FALSE]]}
       ELSE LET session == FirstRow(found)
                mine == {w \in db.session_windows : w.session_id = session.id}
                TabsOf(w) == {t \in db.session_tabs : t.session_window_id = w.id}
                reads == {f \in [mine -> UNION {OrderByTabIndex(TabsOf(w)) : w \in mine}] :
                             \A w \in mine : f[w] \in OrderByTabIndex(TabsOf(w))}
            IN {[threw |-> FALSE,
                 result |-> [found |-> TRUE,
                             sessionId |-> session.session_id,
                             name |-> session.name,
                             description |-> session.description,
                             tags |-> JSONparse(session.tags),
                             capturedAt |-> session.captured_at,
                             tabCount |-> session.tab_count,
                             windowCount |-> session.window_count,
                             windows |-> [k \in DOMAIN windows |->
                                            WindowView(windows[k], tabs[windows[k]])]]] :
                  windows \in OrderByWindowOrder(mine), tabs \in reads}

\* ------------------------------------------------------------- deleteSession
\* DELETE FROM sessions on a connection without PRAGMA foreign_keys = ON
deleteSession_NoCascade(db, userId, sessionId) ==
    [db EXCEPT !.sessions =
        {r \in @ : ~(r.user_id = userId /\ r.session_id = sessionId)}]

\* DELETE FROM sessions WHERE user_id = ? AND session_id = ?, the foreign keys
\* of session_windows and session_tabs declared ON DELETE CASCADE
deleteSession(db, userId, sessionId) ==
    LET gone == {r \in db.sessions : r.user_id = userId /\ r.session_id = sessionId}
        goneWindows == {w \in db.session_windows :
                           \E r \in gone : w.session_id = r.id}
        goneTabs == {t \in db.session_tabs :
                           \E w \in goneWindows : t.session_window_id = w.id}
    IN [sessions |-> db.sessions \ gone,
        session_windows |-> db.session_windows \ goneWindows,
        session_tabs |-> db.session_tabs \ goneTabs,
        sqlite_sequence |-> db.sqlite_sequence]

\* ------------------------------------------------------------- batchCreateSessions
\* batchCreateSessions leaving its loop at the first createSession that throws
RECURSIVE batchCreateSessions_Stop(_, _, _, _, _, _, _)
batchCreateSessions_Stop(acc, userId, instanceId, sessionList, clock, faults, k) ==
    IF k > Len(sessionList) THEN acc
    ELSE LET r == createSession(acc.db, userId, instanceId, sessionList[k],
                                NewSessionId(clock + k), faults[k])
         IN IF r.threw
            THEN [acc EXCEPT !.failed = @ + 1,
                             !.errors = Append(@, r.result.error)]
            ELSE batchCreateSessions_Stop(
                   [db |-> [sessions |-> r.sessions,
                            session_windows |-> r.session_windows,
                            session_tabs |-> r.session_tabs,
                            sqlite_sequence |-> r.sqlite_sequence],
                    created |-> acc.created + 1, failed |-> acc.failed,
                    sessionIds |-> Append(acc.sessionIds, r.result.sessionId),
                    errors |-> acc.errors],
                   userId, instanceId, sessionList, clock, faults, k + 1)

\* the loop over the supplied sessions: acc = [db, created, failed, sessionIds,
\* errors]; the k-th session gets the id generated at clock + k
RECURSIVE batchCreateSessions(_, _, _, _, _, _, _)
batchCreateSessions(acc, userId, instanceId, sessionList, clock, faults, k) ==
    IF k > Len(sessionList) THEN acc
    ELSE LET r == createSession(acc.db, userId, instanceId, sessionList[k],
                                NewSessionId(clock + k), faults[k])
             next ==
               IF r.threw
               THEN [acc EXCEPT !.failed = @ + 1,
                                !.errors = Append(@, r.result.error)]
               ELSE [db |-> [sessions |-> r.sessions,
                             session_windows |-> r.session_windows,
                             session_tabs |-> r.session_tabs,
                             sqlite_sequence |-> r.sqlite_sequence],
                     created |-> acc.created + 1, failed |-> acc.failed,
                     sessionIds |-> Append(acc.sessionIds, r.result.sessionId),
                     errors |-> acc.errors]
         IN batchCreateSessions(next, userId, instanceId, sessionList, clock, faults, k + 1)

\* ------------------------------------------------------------- inputs
EventValues == [documentId : DocIds, timestamp : Timestamps]
Batches == SeqsUpTo(EventValues, MaxBatch)
\* what the other clients of the store upload
OtherBatches == {<<[documentId |-> "d1", timestamp |-> 1]>>}
\* batches of events that all carry a documentId
DocBatches == SeqsUpTo([documentId : DocIds \ {Undefined}, timestamp : Timestamps], MaxBatch)
\* batches of at most one event, sent along with restoration metadata
ShortBatches == {b \in DocBatches : Len(b) <= 1}
RestorationValues == [originalSessionId : SessionIds, newWindowId : WindowIds \ {Absent}]
Metas == SeqsUpTo(RestorationValues, MaxRest)
NoMeta == {<<>>}

\* the store rejects at most one statement of the call
OneFault(evts, meta) ==
    {NoFault(evts, meta)}
    \cup {[NoFault(evts, meta) EXCEPT !.evt[k] = kind] :
              k \in DOMAIN evts, kind \in {"soft", "fatal"}}
    \cup {[NoFault(evts, meta) EXCEPT !.rest[j] = FALSE] : j \in DOMAIN meta}
    \cup {[NoFault(evts, meta) EXCEPT !.hard = site] : site \in HardSites}

\* what the store may answer to a call: it rejects nothing when faulty is FALSE
Faults(faulty, evts, meta) ==
    IF faulty THEN OneFault(evts, meta) ELSE {NoFault(evts, meta)}

\* ------------------------------------------------------------- actions
Idle == [op |-> "idle"]
\* the requests the server may hold suspended at the same time
Slots == {"a", "b"}
Free == [pc |-> "free"]
NoPrior == [none |-> TRUE]

TypeOK ==
    /\ IsABag(events)
    /\ IsABag(restorations)
    /\ \A m \in markers : <<m.user_id, m.instance_id>> \in Pairs
    /\ asked \subseteq Pairs

Init ==
    /\ events = EmptyBag
    /\ markers = {}
    /\ restorations = EmptyBag
    /\ last = Idle
    /\ asked = {}
    /\ seen = [p \in Pairs |-> 0]
    /\ inflight = [c \in Slots |-> Free]
    /\ sessions = {}
    /\ session_windows = {}
    /\ session_tabs = {}
    /\ sqlite_sequence = [sessions |-> 0, session_windows |-> 0, session_tabs |-> 0]
    /\ now = 0
    /\ conn = [open |-> FALSE]

\* GET /sync/marker/:instanceId
GetMarker(P) ==
    \E p \in P :
        LET r == getMarker(Store, p[2], p[1])
        IN /\ events' = r.events
           /\ markers' = r.markers
           /\ restorations' = r.restorations
           /\ last' = [op |-> "getMarker", userId |-> p[1], instanceId |-> p[2],
                       threw |-> FALSE, result |-> r.result]
           /\ asked' = asked \cup {p}
           /\ UNCHANGED <<seen, inflight, sessionVars, conn>>

Serve(p, evts, meta, fault, prior) ==
    LET r == processEvents(Store, p[2], p[1], evts, meta, fault)
    IN /\ BagCardinality(r.events) <= MaxRows
       /\ BagCardinality(r.restorations) <= MaxRestRows
       /\ events' = r.events
       /\ markers' = r.markers
       /\ restorations' = r.restorations
       /\ last' = [op |-> "processEvents", userId |-> p[1], instanceId |-> p[2],
                   events |-> evts, restorationMetadata |-> meta, fault |-> fault,
                   threw |-> r.threw, result |-> r.result, prior |-> prior]
       /\ UNCHANGED <<asked, inflight, sessionVars, conn>>

\* POST /sync/events
ProcessEvents(P, B, M, faulty) ==
    /\ last = Idle
    /\ \E p \in P, evts \in B, meta \in M :
         \E fault \in Faults(faulty, evts, meta) : Serve(p, evts, meta, fault, NoPrior)
    /\ UNCHANGED seen

\* POST /sync/events again with the payload just sent (a client retry)
RetryProcessEvents(faulty) ==
    /\ last.op = "processEvents"
    /\ \E fault \in Faults(faulty, last.events, last.restorationMetadata) :
         Serve(<<last.userId, last.instanceId>>, last.events,
               last.restorationMetadata, fault,
               last.result)
    /\ UNCHANGED seen

\* res.json(...): the response is delivered, the client sends its next request
Respond ==
    /\ last # Idle
    /\ last' = Idle
    /\ UNCHANGED <<events, markers, restorations, asked, seen, inflight, sessionVars, conn>>

\* the clients of one store, the store answering every statement
Next ==
    \/ GetMarker(Pairs)
    \/ ProcessEvents({Focus}, Batches, NoMeta, FALSE)
    \/ ProcessEvents(Others, OtherBatches, NoMeta, FALSE)
    \/ RetryProcessEvents(FALSE)
    \/ Respond

Spec == Init /\ [][Next]_vars

\* one client and a second user of its instance, the store rejecting at most
\* one statement per call
FaultNext ==
    \/ GetMarker({Focus, <<2, "I1">>})
    \/ ProcessEvents({Focus}, DocBatches, NoMeta, TRUE)
    \/ ProcessEvents({Focus}, ShortBatches, Metas \ NoMeta, TRUE)
    \/ Respond

FaultSpec == Init /\ [][FaultNext]_vars

\* a client that uploads its batches in timestamp-ascending order, one after
\* the other, and asks for its marker after each
OrderedUpload ==
    /\ last.op \in {"idle", "getMarker"}
    /\ \E evts \in Batches \ {<<>>} :
         /\ \A k \in DOMAIN evts : evts[k].timestamp >= seen[Focus]
         /\ Serve(Focus, evts, <<>>, NoFault(evts, <<>>), NoPrior)
         /\ seen' = [seen EXCEPT ![Focus] = Max2(@, MathMax(evts))]

MarkerAfterUpload ==
    /\ last.op \in {"idle", "processEvents"}
    /\ GetMarker({Focus})

OrderedNext == OrderedUpload \/ MarkerAfterUpload

OrderedSpec == Init /\ [][OrderedNext]_vars

\* ------------------------------------------------------------- restoration uploads
\* one client reporting restorations, the store rejecting any of their INSERTs
RestoreBatches == {<<>>, <<[documentId |-> "d1", timestamp |-> 1]>>}
RestoreValues == [originalSessionId : SessionIds, newWindowId : {Absent, <<0>>, <<7>>}]
RestoreMetas == SeqsUpTo(RestoreValues, MaxRestore) \ {<<>>}
RestoreFaults(evts, meta) ==
    {[NoFault(evts, meta) EXCEPT !.rest = ok] : ok \in [DOMAIN meta -> BOOLEAN]}

RestoreUpload ==
    /\ last = Idle
    /\ \E evts \in RestoreBatches, meta \in RestoreMetas :
         \E fault \in RestoreFaults(evts, meta) :
            Serve(Focus, evts, meta, fault, NoPrior)
    /\ UNCHANGED seen

RestoreNext ==
    \/ GetMarker({Focus})
    \/ RestoreUpload
    \/ Respond

RestoreSpec == Init /\ [][RestoreNext]_vars

\* ------------------------------------------------------------- interleaved getMarker
\* getMarker suspends at each await: after its SELECT, after its INSERT, and
\* other requests on the connection run in between
ConcPairs == {Focus, <<2, "I1">>}
ConcBatches == {<<[documentId |-> "d1", timestamp |-> t]>> : t \in Timestamps}

\* const marker = await this.dbGet(SELECT * FROM sync_markers ...)
GetMarkerSelect(c, p) ==
    /\ inflight[c] = Free
    /\ LET found == MarkerRows(markers, p[1], p[2])
       IN inflight' = [inflight EXCEPT ![c] =
                         [pc |-> IF found = {} THEN "insert" ELSE "count",
                          userId |-> p[1], instanceId |-> p[2], marker |-> found]]
    /\ UNCHANGED <<events, markers, restorations, last, asked, seen, sessionVars, conn>>

\* await this.dbRun(INSERT INTO sync_markers ...): a rejected INSERT is rethrown
GetMarkerInsert(c) ==
    /\ inflight[c].pc = "insert"
    /\ LET call == inflight[c]
           r == InsertMarker(markers, call.userId, call.instanceId)
       IN /\ markers' = r.markers
          /\ inflight' = [inflight EXCEPT ![c] =
                IF r.ok THEN [call EXCEPT !.pc = "countAll"]
                ELSE [pc |-> "done", userId |-> call.userId,
                      instanceId |-> call.instanceId,
                      threw |-> TRUE, result |-> [error |-> "insert"]]]
    /\ UNCHANGED <<events, restorations, last, asked, seen, sessionVars, conn>>

\* the COUNT query of either branch, and the value getMarker resolves with
GetMarkerCount(c) ==
    /\ inflight[c].pc \in {"countAll", "count"}
    /\ LET call == inflight[c]
           first == call.pc = "countAll"
           marker == CHOOSE m \in call.marker : TRUE
       IN inflight' = [inflight EXCEPT ![c] =
            [pc |-> "done", userId |-> call.userId, instanceId |-> call.instanceId,
             threw |-> FALSE,
             result |->
               IF first
               THEN [instanceId |-> call.instanceId, lastEventTimestamp |-> 0,
                     lastSessionId |-> Undefined, firstSync |-> TRUE,
                     eventCountToSync |->
                         CountEvents(events, call.userId, call.instanceId)]
               ELSE [instanceId |-> call.instanceId,
                     lastEventTimestamp |-> marker.last_event_timestamp,
                     lastSessionId |-> OrUndefined(marker.last_session_id),
                     firstSync |-> FALSE,
                     eventCountToSync |->
                         CountEventsAfter(events, call.userId, call.instanceId,
                                          marker.last_event_timestamp)]]]
    /\ asked' = asked \cup {<<inflight[c].userId, inflight[c].instanceId>>}
    /\ UNCHANGED <<events, markers, restorations, last, seen, sessionVars, conn>>

\* res.json / res.status(500): the request slot is free again
GetMarkerReturn(c) ==
    /\ inflight[c].pc = "done"
    /\ inflight' = [inflight EXCEPT ![c] = Free]
    /\ UNCHANGED <<events, markers, restorations, last, asked, seen, sessionVars, conn>>

ConcNext ==
    \/ \E c \in Slots, p \in ConcPairs : GetMarkerSelect(c, p)
    \/ \E c \in Slots : GetMarkerInsert(c)
    \/ \E c \in Slots : GetMarkerCount(c)
    \/ \E c \in Slots : GetMarkerReturn(c)
    \/ ProcessEvents({Focus}, ConcBatches, NoMeta, FALSE)
    \/ Respond

ConcSpec == Init /\ [][ConcNext]_vars

\* ------------------------------------------------------------- session requests
Tab(id, index, url) ==
    [id |-> id, url |-> url, title |-> "t", index |-> index, active |-> <<TRUE>>,
     pinned |-> Absent, groupId |-> <<4>>, favIconUrl |-> Undefined]

Window(id, tabs) ==
    [id |-> id, focused |-> <<TRUE>>, incognito |-> Absent, type |-> Undefined,
     tabs |-> tabs]

Session(windows, totalTabs, totalWindows) ==
    [name |-> "n", description |-> Undefined, tags |-> <<"work">>,
     windows |-> windows, totalTabs |-> totalTabs, totalWindows |-> totalWindows]

\* MaxTabs tabs in ascending index order; in BadTabs the last one has no url
GoodTabs == [k \in 1..MaxTabs |-> Tab(<<k>>, <<k - 1>>, "u")]
BadTabs == [k \in 1..MaxTabs |->
              Tab(<<k>>, <<k - 1>>, IF k = MaxTabs THEN Undefined ELSE "u")]

\* a session without windows, one with MaxWindows full windows, and that one
\* with the url of its very last tab missing
EmptySession == Session(<<>>, Absent, Absent)
FullSession ==
    Session([w \in 1..MaxWindows |-> Window(<<w>>, GoodTabs)],
            <<MaxWindows * MaxTabs>>, <<MaxWindows>>)
BadSession ==
    Session([w \in 1..MaxWindows |->
               Window(<<w>>, IF w = MaxWindows THEN BadTabs ELSE GoodTabs)],
            <<MaxWindows * MaxTabs>>, <<MaxWindows>>)
SmallSessions == {EmptySession, FullSession, BadSession}
SmallBatches == SeqsUpTo({FullSession, BadSession}, MaxSessions) \ {<<>>}

\* sessions whose windows and tabs carry or lack an id, an index, the totals
RichTabs == {Tab(id, index, "u") : id \in {<<0>>, <<3>>},
                                   index \in {Absent, <<0>>, <<1>>}}
RichWindows == {Window(id, tabs) : id \in {<<0>>, <<5>>},
                                   tabs \in SeqsUpTo(RichTabs, MaxTabs)}
RichSessions == {Session(windows, total, total) :
                    windows \in SeqsUpTo(RichWindows, MaxWindows),
                    total \in {Absent, <<1>>}}

\* POST /api/v1/sessions
CreateSession(U, D, faulty) ==
    /\ last = Idle
    /\ now < MaxSessions
    /\ \E u \in U, sessionData \in D :
        \E fault \in IF faulty THEN 0..Statements(sessionData) ELSE {0} :
          LET sessionId == NewSessionId(now + 1)
              r == createSession(SessionStore, u, "I1", sessionData, sessionId, fault)
          IN /\ sessions' = r.sessions
             /\ session_windows' = r.session_windows
             /\ session_tabs' = r.session_tabs
             /\ sqlite_sequence' = r.sqlite_sequence
             /\ last' = [op |-> "createSession", userId |-> u, instanceId |-> "I1",
                         sessionData |-> sessionData, sessionId |-> sessionId,
                         fault |-> fault, threw |-> r.threw, result |-> r.result]
    /\ now' = now + 1
    /\ UNCHANGED <<syncVars, conn>>

\* GET /api/v1/sessions/:sessionId, for an id generated so far or an unknown one
GetSession(U) ==
    /\ \E u \in U, t \in 1..(now + 1) :
        \E r \in getSession(SessionStore, u, NewSessionId(t)) :
          last' = [op |-> "getSession", userId |-> u, sessionId |-> NewSessionId(t),
                   threw |-> r.threw, result |-> r.result]
    /\ UNCHANGED <<sessionVars, syncVars, conn>>

\* DELETE /api/v1/sessions/:sessionId
DeleteSession(U) ==
    /\ last = Idle
    /\ \E u \in U, t \in 1..(now + 1) :
          LET db == deleteSession(SessionStore, u, NewSessionId(t))
          IN /\ sessions' = db.sessions
             /\ session_windows' = db.session_windows
             /\ session_tabs' = db.session_tabs
             /\ sqlite_sequence' = db.sqlite_sequence
             /\ last' = [op |-> "deleteSession", userId |-> u,
                         sessionId |-> NewSessionId(t), threw |-> FALSE,
                         result |-> [deleted |-> TRUE]]
    /\ UNCHANGED <<now, syncVars, conn>>

\* POST /api/v1/sessions/batch: per session the store rejects nothing or the
\* INSERT of the session row
BatchCreateSessions(U, B) ==
    /\ last = Idle
    /\ \E u \in U, sessionList \in B :
        /\ now + Len(sessionList) <= MaxSessions
        /\ \E faults \in [DOMAIN sessionList -> {0, 2}] :
             LET r == batchCreateSessions(
                        [db |-> SessionStore, created |-> 0, failed |-> 0,
                         sessionIds |-> <<>>, errors |-> <<>>],
                        u, "I1", sessionList, now, faults, 1)
             IN /\ sessions' = r.db.sessions
                /\ session_windows' = r.db.session_windows
                /\ session_tabs' = r.db.session_tabs
                /\ sqlite_sequence' = r.db.sqlite_sequence
                /\ last' = [op |-> "batchCreateSessions", userId |-> u,
                            instanceId |-> "I1", sessions |-> sessionList,
                            faults |-> faults, clock |-> now, threw |-> FALSE,
                            result |-> [created |-> r.created, failed |-> r.failed,
                                        sessionIds |-> r.sessionIds,
                                        errors |-> r.errors]]
        /\ now' = now + Len(sessionList)
    /\ UNCHANGED <<syncVars, conn>>

\* two users creating, reading and deleting sessions, the store rejecting at
\* most one statement per createSession
SessionNext ==
    \/ CreateSession(Users, SmallSessions, TRUE)
    \/ GetSession(Users)
    \/ DeleteSession(Users)
    \/ BatchCreateSessions(Users, SmallBatches)
    \/ Respond

SessionSpec == Init /\ [][SessionNext]_vars

\* one user storing one session in the empty store and reading it back
CreateFirstSession ==
    /\ now = 0
    /\ CreateSession({1}, RichSessions, FALSE)

RoundTripNext ==
    \/ CreateFirstSession
    \/ GetSession({1})
    \/ Respond

RoundTripSpec == Init /\ [][RoundTripNext]_vars

\* ------------------------------------------------------------- properties
\* what the steps below read of a processEvents call l issued in the current state
DocOf(l, k) == l.events[k].documentId
FaultFree(l) == l.fault = NoFault(l.events, l.restorationMetadata)
StoredFor(instanceId, documentId) ==
    \E r \in DOMAIN events : r.instance_id = instanceId /\ r.document_id = documentId

\* event k reaches the INSERT: it has no documentId, or its documentId is
\* neither stored for the instance nor stored by an earlier event of the batch
Attempted(l, k) ==
    ~ /\ Truthy(DocOf(l, k))
      /\ \/ StoredFor(l.instanceId, DocOf(l, k))
         \/ \E j \in 1..(k - 1) : DocOf(l, j) = DocOf(l, k) /\ l.fault.evt[j] = "ok"
Kept(l) == {k \in DOMAIN l.events : Attempted(l, k) /\ l.fault.evt[k] = "ok"}
Failed(l) == {k \in DOMAIN l.events : Attempted(l, k) /\ l.fault.evt[k] # "ok"}
Repeated(l) == {k \in DOMAIN l.events : ~Attempted(l, k)}

\* the rows the kept events of call l add to table events
RowOf(l, k) ==
    [user_id |-> l.userId, instance_id |-> l.instanceId,
     document_id |-> IF Truthy(DocOf(l, k)) THEN DocOf(l, k) ELSE Null,
     timestamp |-> l.events[k].timestamp]
KeptRows(l) ==
    LET rows == {RowOf(l, k) : k \in Kept(l)}
    IN [r \in rows |-> Cardinality({k \in Kept(l) : RowOf(l, k) = r})]

DistinctDocs(evts) ==
    /\ \A k \in DOMAIN evts : Truthy(evts[k].documentId)
    /\ \A j, k \in DOMAIN evts : j # k => evts[j].documentId # evts[k].documentId

MarkerOf(mks, p) == MarkerRows(mks, p[1], p[2])

\* C1 -- Idempotent ingestion: a fault-free upload of N >= 1 events whose
\* documentIds are distinct and not yet stored for the instance reports
\* eventsProcessed = N, duplicateCount = 0; uploading the same batch again for
\* the same (user, instance) reports eventsProcessed = 0, duplicateCount = N
\* and adds no event row.
C1_Step ==
    LET l == last'
        N == Len(l.events)
    IN (l.op = "processEvents" /\ N >= 1 /\ DistinctDocs(l.events) /\ FaultFree(l))
       => /\ (\A k \in 1..N : ~StoredFor(l.instanceId, DocOf(l, k)))
             => /\ ~l.threw
                /\ l.result.eventsProcessed = N
                /\ l.result.duplicateCount = 0
          /\ ( /\ last.op = "processEvents" /\ ~last.threw /\ FaultFree(last)
               /\ last.userId = l.userId /\ last.instanceId = l.instanceId
               /\ last.events = l.events
               /\ last.result.eventsProcessed = N /\ last.result.duplicateCount = 0 )
             => /\ ~l.threw
                /\ l.result.eventsProcessed = 0
                /\ l.result.duplicateCount = N
                /\ events' = events

C1_IdempotentIngestion == [][C1_Step]_vars

C1_Witness ==
    /\ last.op = "processEvents" /\ ~last.threw
    /\ Len(last.events) = MaxBatch /\ DistinctDocs(last.events)
    /\ last.prior # NoPrior
    /\ last.prior.eventsProcessed = MaxBatch /\ last.prior.duplicateCount = 0
    /\ last.result.eventsProcessed = 0 /\ last.result.duplicateCount = MaxBatch

\* C2 -- The events table holds at most one row per (instanceId, documentId)
\* with a non-empty documentId, whatever was uploaded; an event whose
\* documentId is already stored for its instance, or repeats an earlier event
\* of its batch, is counted in duplicateCount and the call reports no error.
C2_Unique ==
    \A r \in DOMAIN events :
        r.document_id # Null
        => /\ events[r] = 1
           /\ \A q \in DOMAIN events :
                (q.instance_id = r.instance_id /\ q.document_id = r.document_id) => q = r

C2_Step ==
    LET l == last'
    IN (l.op = "processEvents" /\ FaultFree(l))
       => /\ ~l.threw
          /\ l.result.duplicateCount = Cardinality(Repeated(l))
          /\ l.result.message.text = "Events synced successfully"
          /\ BagCardinality(events') = BagCardinality(events) + Len(l.events)
                                         - Cardinality(Repeated(l))

C2_UniquePerInstanceDocument == C2_Unique /\ [][C2_Unique' /\ C2_Step]_vars

C2_Witness ==
    /\ last.op = "processEvents" /\ ~last.threw
    /\ Len(last.events) = 2
    /\ last.events[1].documentId = last.events[2].documentId
    /\ Truthy(last.events[1].documentId)
    /\ last.result.eventsProcessed = 1 /\ last.result.duplicateCount = 1
    /\ \E r \in DOMAIN events :
          /\ r.document_id = last.events[1].documentId
          /\ r.instance_id # last.instanceId

\* C3 -- For every (user, instance) the stored marker's lastEventTimestamp
\* never decreases: every step leaves it greater than or equal to its
\* previous value.
C3_MarkerNeverDecreases ==
    [][\A p \in Pairs : \A m \in MarkerOf(markers, p) : \A n \in MarkerOf(markers', p) :
          n.last_event_timestamp >= m.last_event_timestamp]_vars

\* C4 -- Marker monotonicity under ordered uploads: when the batches of one
\* (user, instance) are uploaded one after the other in timestamp-ascending
\* order, getMarker after a batch returns the largest timestamp uploaded so far.
C4_MarkerIsMaxSeen ==
    (last.op = "getMarker" /\ seen[<<last.userId, last.instanceId>>] > 0)
    => last.result.lastEventTimestamp = seen[<<last.userId, last.instanceId>>]

\* C5 -- First-sync detection: the first getMarker for a (user, instance)
\* that has no marker returns firstSync = TRUE and lastEventTimestamp = 0;
\* every later getMarker for that pair returns firstSync = FALSE.
C5_Step ==
    LET l == last'
        p == <<l.userId, l.instanceId>>
    IN l.op = "getMarker"
       => /\ (p \notin asked /\ MarkerOf(markers, p) = {})
             => (l.result.firstSync /\ l.result.lastEventTimestamp = 0)
          /\ p \in asked => ~l.result.firstSync

C5_FirstSyncDetection == [][C5_Step]_vars

C5_Witness ==
    /\ last.op = "getMarker"
    /\ <<last.userId, last.instanceId>> \in asked
    /\ ~last.result.firstSync
    /\ last.result.lastEventTimestamp = 0

\* C6 -- For a (user, instance) on which getMarker was never called, the
\* getMarker that follows a committed non-empty upload (or its re-upload)
\* returns firstSync = FALSE and the batch's largest timestamp.
C6_Step ==
    LET l == last'
        p == <<l.userId, l.instanceId>>
    IN ( /\ l.op = "getMarker" /\ p \notin asked
         /\ last.op = "processEvents" /\ ~last.threw /\ Len(last.events) > 0
         /\ <<last.userId, last.instanceId>> = p )
       => /\ ~l.result.firstSync
          /\ l.result.lastEventTimestamp = MathMax(last.events)

C6_MarkerAfterFirstUpload == [][C6_Step]_vars

\* C7 -- Atomic batch: when the store answers one event's INSERT with a
\* transaction-fatal error, or a statement outside the per-item handlers
\* fails, processEvents throws and leaves events, restoration mappings and
\* markers as they were.
C7_Step ==
    LET l == last'
    IN ( /\ l.op = "processEvents"
         /\ \/ \E k \in Failed(l) : l.fault.evt[k] = "fatal"
            \/ l.fault.hard \in {"begin", "commit"}
            \/ (l.fault.hard = "marker" /\ Len(l.events) > 0) )
       => /\ l.threw
          /\ events' = events /\ restorations' = restorations /\ markers' = markers

C7_AtomicBatch == [][C7_Step]_vars

\* C8 -- Soft per-event failure: when the INSERT of one event fails with a
\* constraint violation, processEvents still handles every other event of the
\* batch in arrival order, commits those that succeeded, does not throw, and
\* its message reports the number of failed events.
C8_Step ==
    LET l == last'
    IN ( /\ l.op = "processEvents" /\ l.fault.hard = "none"
         /\ \E k \in DOMAIN l.events : l.fault.evt[k] = "soft" /\ Attempted(l, k) )
       => /\ ~l.threw
          /\ events' = events (+) KeptRows(l)
          /\ l.result.eventsReceived = Len(l.events)
          /\ l.result.eventsProcessed = Cardinality(Kept(l))
          /\ l.result.duplicateCount = Cardinality(Repeated(l))
          /\ l.result.message = [text |-> "Processed with N errors",
                                 N |-> Cardinality(Failed(l))]
          /\ Cardinality(Failed(l)) >= 1

C8_SoftFailureKeepsBatch == [][C8_Step]_vars

C8_Witness ==
    /\ last.op = "processEvents" /\ ~last.threw
    /\ Len(last.events) = MaxBatch
    /\ last.fault.evt[1] = "soft"
    /\ last.result.eventsProcessed = MaxBatch - 1
    /\ last.result.message.N = 1
    /\ BagCardinality(events) >= MaxBatch - 1

\* C9 -- A per-event failure does not advance the marker for that event:
\* after a committed batch in which an event failed, the marker is unchanged
\* or at most the largest timestamp of the batch's events that were stored or
\* counted as duplicates.
C9_Step ==
    LET l == last'
        p == <<l.userId, l.instanceId>>
        good == {l.events[k].timestamp : k \in Kept(l) \cup Repeated(l)}
    IN (l.op = "processEvents" /\ ~l.threw /\ Failed(l) # {})
       => \A m \in MarkerOf(markers, p) : \A n \in MarkerOf(markers', p) :
             \/ n.last_event_timestamp = m.last_event_timestamp
             \/ \E t \in good : n.last_event_timestamp <= t

C9_FailedEventDoesNotAdvance == [][C9_Step]_vars

\* C10 -- getMarker inserts at most one marker row, and only for a
\* (user, instance) that has none; it changes no existing marker row and no
\* row of events or session_restorations.
C10_Step ==
    LET l == last'
        p == <<l.userId, l.instanceId>>
    IN l.op = "getMarker"
       => /\ events' = events
          /\ restorations' = restorations
          /\ sessions' = sessions
          /\ session_windows' = session_windows
          /\ session_tabs' = session_tabs
          /\ markers \subseteq markers'
          /\ Cardinality(markers' \ markers) <= 1
          /\ MarkerOf(markers, p) # {} => markers' = markers
          /\ \A n \in markers' \ markers :
                /\ <<n.user_id, n.instance_id>> = p
                /\ n.last_event_timestamp = 0

C10_GetMarkerFrame == [][C10_Step]_vars

C10_Witness ==
    /\ last.op = "getMarker" /\ last.userId = Focus[1] /\ last.instanceId = Focus[2]
    /\ ~last.result.firstSync
    /\ last.result.lastEventTimestamp > 0
    /\ BagCardinality(events) > 0
    /\ BagCardinality(restorations) > 0
    /\ \E m \in markers : <<m.user_id, m.instance_id>> # Focus

\* C11 -- In every reachable state there is at most one marker row per
\* (user, instance), also when getMarker calls for the same fresh pair
\* interleave between their lookup and their insert.
C11_OneMarkerPerPair ==
    \A p \in Pairs : Cardinality(MarkerOf(markers, p)) <= 1

\* two calls both found no marker; the second INSERT was rejected
C11_Witness ==
    \E c, d \in Slots :
        /\ c # d
        /\ inflight[c].pc = "done" /\ inflight[c].threw
        /\ inflight[d].pc = "done" /\ ~inflight[d].threw
        /\ inflight[d].result.firstSync
        /\ inflight[c].userId = inflight[d].userId
        /\ inflight[c].instanceId = inflight[d].instanceId
        /\ Cardinality(MarkerRows(markers, inflight[c].userId, inflight[c].instanceId)) = 1

\* C12 -- When processEvents commits a batch with at least one event, the
\* marker of its (user, instance) is the largest timestamp of the batch,
\* whatever it was before; an empty batch leaves the markers unchanged.
C12_Step ==
    LET l == last'
        p == <<l.userId, l.instanceId>>
    IN (l.op = "processEvents" /\ ~l.threw)
       => IF Len(l.events) > 0
          THEN /\ MarkerOf(markers', p) # {}
               /\ \A n \in MarkerOf(markers', p) :
                     n.last_event_timestamp = MathMax(l.events)
          ELSE markers' = markers

C12_MarkerSetToBatchMax == [][C12_Step]_vars

\* the same step for a pair whose marker row exists when the batch arrives
C12_WhenMarkerExists ==
    [][LET l == last'
           p == <<l.userId, l.instanceId>>
       IN (l.op = "processEvents" /\ ~l.threw /\ MarkerOf(markers, p) # {})
          => IF Len(l.events) > 0
             THEN \A n \in MarkerOf(markers', p) :
                     n.last_event_timestamp = MathMax(l.events)
             ELSE markers' = markers]_vars

\* the rows a restoration upload is expected to add: one per record whose
\* INSERT the store accepted, carrying the record's newWindowId
RestorationRowOf(l, j) ==
    [user_id |-> l.userId, instance_id |-> l.instanceId,
     original_session_id |-> l.restorationMetadata[j].originalSessionId,
     new_window_id |-> l.restorationMetadata[j].newWindowId]
Accepted(l) == {j \in DOMAIN l.restorationMetadata : l.fault.rest[j]}
AcceptedRows(l) ==
    LET rows == {RestorationRowOf(l, j) : j \in Accepted(l)}
    IN [r \in rows |-> Cardinality({j \in Accepted(l) : RestorationRowOf(l, j) = r})]

\* C13 -- Restoration mappings are append-only and not deduplicated: a
\* committed upload adds one session_restorations row per restoration record,
\* carrying the record's originalSessionId and newWindowId, keeps every row
\* already there (a repeated report adds its rows again), and reports the
\* number of rows added in restorationMappings.
C13_Step ==
    LET l == last'
    IN ( /\ l.op = "processEvents" /\ ~l.threw
         /\ Accepted(l) = DOMAIN l.restorationMetadata )
       => /\ restorations' = restorations (+) AcceptedRows(l)
          /\ l.result.restorationMappings = Len(l.restorationMetadata)
          /\ l.result.restorationMappings
               = BagCardinality(restorations') - BagCardinality(restorations)

C13_RestorationsAppendOnly == [][C13_Step]_vars

\* the same step for records whose newWindowId is absent or not 0
C13_NonZeroWindowId ==
    [][LET l == last'
       IN ( /\ l.op = "processEvents" /\ ~l.threw
            /\ Accepted(l) = DOMAIN l.restorationMetadata
            /\ \A j \in DOMAIN l.restorationMetadata :
                  l.restorationMetadata[j].newWindowId # <<0>> )
          => /\ restorations' = restorations (+) AcceptedRows(l)
             /\ l.result.restorationMappings = Len(l.restorationMetadata)]_vars

\* C14 -- A failure to insert one restoration record is skipped on its own:
\* every other record of the list is still inserted, the call commits the
\* batch's events and the marker update, and it does not throw.
C14_Step ==
    LET l == last'
        p == <<l.userId, l.instanceId>>
    IN ( /\ l.op = "processEvents" /\ l.fault.hard = "none"
         /\ \A k \in DOMAIN l.events : l.fault.evt[k] = "ok"
         /\ Accepted(l) # DOMAIN l.restorationMetadata )
       => /\ ~l.threw
          /\ restorations \sqsubseteq restorations'
          /\ BagCardinality(restorations')
               = BagCardinality(restorations) + Cardinality(Accepted(l))
          /\ \A j \in Accepted(l) :
                \E r \in DOMAIN restorations' :
                    /\ r.original_session_id = l.restorationMetadata[j].originalSessionId
                    /\ r.user_id = l.userId /\ r.instance_id = l.instanceId
          /\ l.result.restorationMappings = Cardinality(Accepted(l))
          /\ events' = events (+) KeptRows(l)
          /\ l.result.eventsProcessed = Cardinality(Kept(l))
          /\ Len(l.events) > 0
               => \A n \in MarkerOf(markers', p) :
                     n.last_event_timestamp = MathMax(l.events)

C14_RestorationFailureSkipped == [][C14_Step]_vars

\* the first of two records was rejected, the second and the event were stored
C14_Witness ==
    /\ last.op = "processEvents" /\ ~last.threw
    /\ Len(last.restorationMetadata) = 2
    /\ ~last.fault.rest[1] /\ last.fault.rest[2]
    /\ last.result.restorationMappings = 1
    /\ last.result.eventsProcessed = 1
    /\ BagCardinality(restorations) >= 1
    /\ BagCardinality(events) = 1
    /\ \E m \in markers : m.last_event_timestamp = 1

\* what the steps below read of a session request l
HasBadTab(sessionData) ==
    \E w \in DOMAIN sessionData.windows :
        \E k \in DOMAIN sessionData.windows[w].tabs :
            ~Truthy(sessionData.windows[w].tabs[k].url)
CreateFails(sessionData, fault) ==
    fault \in 1..Statements(sessionData) \/ HasBadTab(sessionData)
WindowsOf(ws, s) == {w \in ws : w.session_id = s.id}
TabsIn(ts, ws) == {t \in ts : \E w \in ws : t.session_window_id = w.id}

\* the session with the given id is stored whole: one session row, one window
\* row per supplied window, one tab row per supplied tab of each window
StoredWhole(ss, ws, ts, userId, sessionId, sessionData) ==
    \E s \in ss :
        /\ s.user_id = userId /\ s.session_id = sessionId
        /\ \A q \in ss : q.session_id = sessionId => q = s
        /\ Cardinality(WindowsOf(ws, s)) = Len(sessionData.windows)
        /\ \A k \in DOMAIN sessionData.windows :
              \E w \in WindowsOf(ws, s) :
                  /\ w.window_order = k - 1
                  /\ Cardinality(TabsIn(ts, {w})) = Len(sessionData.windows[k].tabs)

\* C15 -- createSession is all-or-nothing: when the INSERT of the session
\* row, of a window row or of a tab row (or BEGIN or COMMIT) fails, the call
\* throws and the three session tables are as before the call; otherwise the
\* session row, all its windows and all its tabs are stored together.
C15_Step ==
    LET l == last'
    IN l.op = "createSession"
       => IF CreateFails(l.sessionData, l.fault)
          THEN /\ l.threw
               /\ sessions' = sessions
               /\ session_windows' = session_windows
               /\ session_tabs' = session_tabs
               /\ \A s \in sessions' : s.session_id # l.sessionId
          ELSE /\ ~l.threw
               /\ l.result.sessionId = l.sessionId
               /\ sessions \subseteq sessions'
               /\ session_windows \subseteq session_windows'
               /\ session_tabs \subseteq session_tabs'
               /\ Cardinality(sessions') = Cardinality(sessions) + 1
               /\ StoredWhole(sessions', session_windows', session_tabs',
                              l.userId, l.sessionId, l.sessionData)

C15_CreateSessionAllOrNothing == [][C15_Step]_vars

\* a session failed at its very last tab, next to a session stored earlier
C15_Witness ==
    /\ last.op = "createSession" /\ last.threw
    /\ last.sessionData = BadSession /\ last.fault = 0
    /\ Cardinality(sessions) = 1
    /\ Cardinality(session_windows) = MaxWindows
    /\ Cardinality(session_tabs) = MaxWindows * MaxTabs

\* a supplied optional value is absent or equal to the value returned
SameNum(supplied, returned) == supplied = Absent \/ supplied[1] = returned
SameStr(supplied, returned) == supplied = Undefined \/ supplied = returned

SameTab(tab, view) ==
    /\ SameNum(tab.id, view.tabId)
    /\ SameStr(tab.url, view.url)
    /\ SameStr(tab.title, view.title)
    /\ SameNum(tab.index, view.index)
    /\ SameNum(tab.active, view.active)
    /\ SameNum(tab.pinned, view.pinned)
    /\ tab.groupId = view.groupId
    /\ SameStr(tab.favIconUrl, view.favIconUrl)

SameWindow(window, view) ==
    /\ SameNum(window.id, view.windowId)
    /\ SameNum(window.focused, view.focused)
    /\ SameNum(window.incognito, view.incognito)
    /\ SameStr(window.type, view.type)
    /\ Len(view.tabs) = Len(window.tabs)
    /\ \A j \in DOMAIN window.tabs : SameTab(window.tabs[j], view.tabs[j])

\* C16 -- Session round-trip: getSession with the id createSession returned
\* gives the windows in the order supplied and, in each window, the tabs in
\* the order supplied, every supplied field value unchanged.
C16_Step ==
    LET l == last'
    IN ( /\ last.op = "createSession" /\ ~last.threw
         /\ l.op = "getSession"
         /\ l.userId = last.userId /\ l.sessionId = last.result.sessionId )
       => /\ ~l.threw
          /\ l.result.found
          /\ Len(l.result.windows) = Len(last.sessionData.windows)
          /\ \A k \in DOMAIN last.sessionData.windows :
                SameWindow(last.sessionData.windows[k], l.result.windows[k])

C16_SessionRoundTrip == [][C16_Step]_vars

\* C17 -- Right after createSession commits, the stored tab_count is the
\* number of tab rows the session owns and window_count the number of its
\* window rows, whatever totalTabs / totalWindows the request carried.
C17_Step ==
    LET l == last'
    IN (l.op = "createSession" /\ ~l.threw)
       => \A s \in sessions' :
             s.session_id = l.sessionId
             => /\ s.window_count = Cardinality(WindowsOf(session_windows', s))
                /\ s.tab_count =
                     Cardinality(TabsIn(session_tabs', WindowsOf(session_windows', s)))

C17_CountsMatchRows == [][C17_Step]_vars

\* C18 -- getSession(userId, sessionId) resolves with null, without throwing,
\* exactly when no session with that sessionId belongs to that user, also
\* when the id is another user's; it returns a session only to its owner.
C18_Step ==
    LET l == last'
        owned == {s \in sessions : s.user_id = l.userId /\ s.session_id = l.sessionId}
    IN l.op = "getSession"
       => /\ ~l.threw
          /\ l.result.found <=> owned # {}
          /\ l.result.found => l.result.sessionId = l.sessionId

C18_GetSessionOwnerOnly == [][C18_Step]_vars

\* the id asked for exists and belongs to the other user
C18_Witness ==
    /\ last.op = "getSession" /\ ~last.threw
    /\ ~last.result.found
    /\ \E s \in sessions :
          /\ s.session_id = last.sessionId /\ s.user_id # last.userId
          /\ WindowsOf(session_windows, s) # {}

\* C19 -- After deleteSession for a session its caller owns, no window row
\* and no tab row of that session remains, and the rows of every other
\* session are unchanged.
C19_Step ==
    LET l == last'
    IN l.op = "deleteSession"
       => \A s \in sessions :
             (s.user_id = l.userId /\ s.session_id = l.sessionId)
             => LET ws == WindowsOf(session_windows, s)
                IN /\ ~l.threw
                   /\ sessions' = sessions \ {s}
                   /\ session_windows' = session_windows \ ws
                   /\ session_tabs' = session_tabs \ TabsIn(session_tabs, ws)
                   /\ WindowsOf(session_windows', s) = {}
                   /\ TabsIn(session_tabs', ws) = {}

C19_DeleteCascades == [][C19_Step]_vars

\* a session with windows and tabs was deleted, another one is still whole
C19_Witness ==
    /\ last.op = "deleteSession"
    /\ \A s \in sessions : s.session_id # last.sessionId
    /\ sqlite_sequence.sessions = 2
    /\ Cardinality(sessions) = 1
    /\ Cardinality(session_windows) = MaxWindows
    /\ Cardinality(session_tabs) = MaxWindows * MaxTabs
    /\ sqlite_sequence.session_tabs = 2 * MaxWindows * MaxTabs

\* the sessions of batch l that createSession stores
Created(l) ==
    {k \in DOMAIN l.sessions : ~CreateFails(l.sessions[k], l.faults[k])}

\* C20 -- batchCreateSessions isolates per-session failures: a session
\* whose createSession fails leaves no row and the sessions before and after
\* it are still created; the call does not throw and reports
\* created + failed = sessions supplied, one sessionId per created session
\* and one error per failed one.
C20_Step ==
    LET l == last'
        n == Len(l.sessions)
    IN l.op = "batchCreateSessions"
       => /\ ~l.threw
          /\ l.result.created = Cardinality(Created(l))
          /\ l.result.created + l.result.failed = n
          /\ Len(l.result.sessionIds) = l.result.created
          /\ Len(l.result.errors) = l.result.failed
          /\ \A k \in 1..n :
                IF k \in Created(l)
                THEN StoredWhole(sessions', session_windows', session_tabs',
                                 l.userId, NewSessionId(l.clock + k), l.sessions[k])
                ELSE \A s \in sessions' : s.session_id # NewSessionId(l.clock + k)
          /\ Cardinality(sessions') = Cardinality(sessions) + Cardinality(Created(l))
          /\ \A w \in session_windows' \ session_windows :
                \E s \in sessions' \ sessions : w.session_id = s.id
          /\ \A t \in session_tabs' \ session_tabs :
                \E w \in session_windows' \ session_windows : t.session_window_id = w.id
          /\ sessions \subseteq sessions'
          /\ session_windows \subseteq session_windows'
          /\ session_tabs \subseteq session_tabs'

C20_BatchIsolatesFailures == [][C20_Step]_vars

\* the first session of the batch failed at its last tab, the next was created
C20_Witness ==
    /\ last.op = "batchCreateSessions"
    /\ Len(last.sessions) = MaxSessions
    /\ last.sessions[1] = BadSession
    /\ last.sessions[MaxSessions] = FullSession
    /\ last.faults[MaxSessions] = 0
    /\ last.result.failed >= 1 /\ last.result.created >= 1
    /\ Cardinality(session_tabs) >= MaxWindows * MaxTabs

\* ------------------------------------------------------------- POST /sync/events
\* A request body as express.json() hands it to the route: an optional field
\* is <<>> when missing and <<v>> when present.
EventTypes == {"navigation", "session-restored"}

\* UUID_REGEX.test(s), z.string().uuid(): I1 and I2 stand for two UUIDs
IsUuid(s) == s \in Instances

\* eventSchema.safeParse(e).success
eventSchema(e) ==
    /\ e.eventType \in EventTypes
    /\ e.timestamp # Absent
    /\ e.instanceId # Absent

\* the item schema of restorationMetadata
restorationSchema(r) ==
    /\ r.eventType = "session-restored"
    /\ r.originalSessionId # Absent
    /\ r.restoredAt # Absent

\* syncEventsSchema.safeParse(body).success
syncEventsSchema(body) ==
    /\ IsUuid(body.instanceId)
    /\ body.fromTimestamp # Absent
    /\ body.events # Absent
    /\ \A k \in DOMAIN body.events[1] : eventSchema(body.events[1][k])
    /\ body.restorationMetadata # Absent
         => \A j \in DOMAIN body.restorationMetadata[1] :
               restorationSchema(body.restorationMetadata[1][j])

\* validation.data: the events and the restoration records processEvents reads
PayloadEvents(body) ==
    [k \in DOMAIN body.events[1] |->
        [documentId |-> body.events[1][k].documentId,
         timestamp |-> body.events[1][k].timestamp[1]]]

PayloadRestorations(body) ==
    IF body.restorationMetadata = Absent THEN <<>>
    ELSE [j \in DOMAIN body.restorationMetadata[1] |->
            [originalSessionId |-> body.restorationMetadata[1][j].originalSessionId[1],
             newWindowId |-> body.restorationMetadata[1][j].newWindowId]]

Rejected(st, status, error) ==
    [events |-> st.events, markers |-> st.markers, restorations |-> st.restorations,
     status |-> status, called |-> FALSE, body |-> [success |-> FALSE, error |-> error]]

\* the route without its comparison of the header with the payload's instanceId
postEvents_NoHeaderCheck(st, userId, header, body, hard) ==
    IF ~Truthy(header) THEN Rejected(st, 400, "X-Instance-ID header is required")
    ELSE IF ~IsUuid(header) THEN Rejected(st, 400, "Invalid X-Instance-ID format")
    ELSE IF ~syncEventsSchema(body) THEN Rejected(st, 400, "Invalid request payload")
    ELSE LET evts == PayloadEvents(body)
             meta == PayloadRestorations(body)
             r == processEvents(st, body.instanceId, userId, evts, meta,
                                [NoFault(evts, meta) EXCEPT !.hard = hard])
         IN [events |-> r.events, markers |-> r.markers,
             restorations |-> r.restorations,
             status |-> IF r.threw THEN 500 ELSE 200, called |-> TRUE,
             body |-> IF r.threw
                      THEN [success |-> FALSE, error |-> "Failed to process events"]
                      ELSE [success |-> TRUE, data |-> r.result]]

\* instanceValidationMiddleware, then router.post('/events'); hard is the
\* statement of processEvents the store rejects
postEvents(st, userId, header, body, hard) ==
    IF ~Truthy(header) THEN Rejected(st, 400, "X-Instance-ID header is required")
    ELSE IF ~IsUuid(header) THEN Rejected(st, 400, "Invalid X-Instance-ID format")
    ELSE IF ~syncEventsSchema(body) THEN Rejected(st, 400, "Invalid request payload")
    ELSE IF header # body.instanceId THEN Rejected(st, 400, "Instance ID mismatch")
    ELSE LET evts == PayloadEvents(body)
             meta == PayloadRestorations(body)
             r == processEvents(st, body.instanceId, userId, evts, meta,
                                [NoFault(evts, meta) EXCEPT !.hard = hard])
         IN [events |-> r.events, markers |-> r.markers,
             restorations |-> r.restorations,
             status |-> IF r.threw THEN 500 ELSE 200, called |-> TRUE,
             body |-> IF r.threw
                      THEN [success |-> FALSE, error |-> "Failed to process events"]
                      ELSE [success |-> TRUE, data |-> r.result]]

\* the bodies and headers a client may send
BodyEvent(eventType, documentId, timestamp) ==
    [eventType |-> eventType, documentId |-> documentId, timestamp |-> timestamp,
     instanceId |-> <<"I1">>]
BodyRestoration(restoredAt) ==
    [eventType |-> "session-restored", originalSessionId |-> <<"s1">>,
     restoredAt |-> restoredAt, newWindowId |-> <<7>>]
Body(instanceId, evts, meta) ==
    [instanceId |-> instanceId, fromTimestamp |-> <<0>>, events |-> <<evts>>,
     restorationMetadata |-> meta]
GoodEvent == BodyEvent("navigation", "d1", <<1>>)
GoodRestorations == <<<<BodyRestoration(<<1>>)>>>>
\* well-formed bodies, and a well-formed body with one defect
GoodBodies ==
    {Body(i, evts, meta) : i \in Instances, evts \in {<<>>, <<GoodEvent>>},
                           meta \in {Absent, GoodRestorations}}
BadBodies ==
    LET good == Body("I1", <<GoodEvent>>, GoodRestorations)
    IN {[good EXCEPT !.instanceId = "i"],
        [good EXCEPT !.fromTimestamp = Absent],
        [good EXCEPT !.events = Absent],
        [good EXCEPT !.events = <<<<BodyEvent("navigation", "d1", Absent)>>>>],
        [good EXCEPT !.events = <<<<BodyEvent("click", "d1", <<1>>)>>>>],
        [good EXCEPT !.restorationMetadata = <<<<BodyRestoration(Absent)>>>>]}
Bodies == GoodBodies \cup BadBodies
Headers == {Undefined, "i"} \cup Instances

\* POST /api/v1/sync/events
PostEvents ==
    /\ last = Idle
    /\ \E header \in Headers, body \in Bodies, hard \in {"none", "commit"} :
         LET r == postEvents(Store, Focus[1], header, body, hard)
         IN /\ BagCardinality(r.events) <= MaxRows
            /\ BagCardinality(r.restorations) <= MaxRestRows
            /\ events' = r.events
            /\ markers' = r.markers
            /\ restorations' = r.restorations
            /\ last' = [op |-> "postEvents", userId |-> Focus[1], header |-> header,
                        request |-> body, hard |-> hard, status |-> r.status,
                        called |-> r.called, response |-> r.body]
    /\ UNCHANGED <<asked, seen, inflight, sessionVars, conn>>

RouteNext ==
    \/ PostEvents
    \/ GetMarker({Focus, <<1, "I2">>})
    \/ Respond

RouteSpec == Init /\ [][RouteNext]_vars

\* C21 -- A sync upload rejected by validation (a malformed payload, or an
\* X-Instance-ID header that differs from the payload's instanceId) is answered
\* with status 400 without processEvents being called, so before any
\* transaction begins, and markers, events and restoration mappings are as
\* they were.
C21_Step ==
    LET l == last'
    IN ( /\ l.op = "postEvents"
         /\ \/ ~syncEventsSchema(l.request)
            \/ l.header # l.request.instanceId )
       => /\ l.status = 400
          /\ ~l.called
          /\ ~l.response.success
          /\ events' = events /\ markers' = markers /\ restorations' = restorations

C21_ValidationRejectsFirst == [][C21_Step]_vars

\* a well-formed upload for I1 sent with the header of I2 was rejected, the
\* store holding a marker and an event of an earlier accepted upload
C21_Witness ==
    /\ last.op = "postEvents" /\ last.status = 400
    /\ syncEventsSchema(last.request)
    /\ last.header = "I2" /\ last.request.instanceId = "I1"
    /\ Len(last.request.events[1]) = 1
    /\ BagCardinality(events) = 1
    /\ \A r \in DOMAIN events : r.instance_id = "I2"
    /\ markers # {}

\* ------------------------------------------------------------- event cleanup and statistics
\* the cleanup deleting the old events of every user
deleteOldEvents_AnyUser(evs, userId, olderThanTimestamp) ==
    LET kept == {r \in DOMAIN evs : ~(r.timestamp < olderThanTimestamp)}
    IN [events |-> [r \in kept |-> evs[r]],
        threw |-> TRUE, result |-> [error |-> "TypeError"]]

\* DELETE FROM events WHERE user_id = ? AND timestamp < ?  The promisified
\* db.run resolves with undefined, so reading result.changes throws after the
\* rows are deleted and the catch block rethrows.
deleteOldEvents(evs, userId, olderThanTimestamp) ==
    LET kept == {r \in DOMAIN evs :
                    ~(r.user_id = userId /\ r.timestamp < olderThanTimestamp)}
    IN [events |-> [r \in kept |-> evs[r]],
        threw |-> TRUE, result |-> [error |-> "TypeError"]]

\* getSyncStats: three SELECTs (the events are not told apart by type here)
getSyncStats(st, userId, instanceId) ==
    LET found == MarkerRows(st.markers, userId, instanceId)
    IN [hasMarker |-> found # {},
        lastEventTimestamp |->
            IF found = {} THEN 0 ELSE (CHOOSE m \in found : TRUE).last_event_timestamp,
        totalEvents |-> CountEvents(st.events, userId, instanceId)]

\* cutoffs below, between and above the timestamps uploaded
Cutoffs == Timestamps \cup {3}
CleanupPairs == {Focus, <<2, "I1">>}
CleanupBatches == SeqsUpTo([documentId : {Undefined}, timestamp : Timestamps], 1)

\* EventService.deleteOldEvents(userId, olderThanTimestamp)
DeleteOldEvents ==
    /\ last = Idle
    /\ \E u \in Users, olderThanTimestamp \in Cutoffs :
         LET r == deleteOldEvents(events, u, olderThanTimestamp)
         IN /\ events' = r.events
            /\ last' = [op |-> "deleteOldEvents", userId |-> u,
                        olderThanTimestamp |-> olderThanTimestamp,
                        threw |-> r.threw, result |-> r.result]
    /\ UNCHANGED <<markers, restorations, asked, seen, inflight, sessionVars, conn>>

\* GET /sync/stats/:instanceId
GetSyncStats ==
    /\ last = Idle
    /\ \E p \in CleanupPairs :
         last' = [op |-> "getSyncStats", userId |-> p[1], instanceId |-> p[2],
                  threw |-> FALSE, result |-> getSyncStats(Store, p[1], p[2])]
    /\ UNCHANGED <<events, markers, restorations, asked, seen, inflight, sessionVars, conn>>

\* two users of one instance uploading, one of them asking for its marker and
\* storing and deleting sessions, next to the cleanup
CleanupNext ==
    \/ GetMarker({Focus})
    \/ ProcessEvents(CleanupPairs, CleanupBatches, NoMeta, FALSE)
    \/ GetSyncStats
    \/ CreateSession({1}, {EmptySession}, FALSE)
    \/ DeleteSession({1})
    \/ DeleteOldEvents
    \/ Respond

CleanupSpec == Init /\ [][CleanupNext]_vars

\* C22 -- Events are append-only: a getMarker, processEvents, getSyncStats or
\* session operation keeps every stored event row; only deleteOldEvents
\* removes events, and it removes exactly the rows of the given user whose
\* timestamp is strictly below the cutoff.
C22_Step ==
    LET l == last'
    IN IF l.op = "deleteOldEvents"
       THEN /\ DOMAIN events' \subseteq DOMAIN events
            /\ \A r \in DOMAIN events :
                  IF r.user_id = l.userId /\ r.timestamp < l.olderThanTimestamp
                  THEN ~BagIn(r, events')
                  ELSE BagIn(r, events') /\ events'[r] = events[r]
       ELSE events \sqsubseteq events'

C22_EventsAppendOnly == [][C22_Step]_vars

\* the cleanup removed an old event of its user and kept an equally old event
\* of the other user
C22_Witness ==
    /\ last.op = "deleteOldEvents"
    /\ last.olderThanTimestamp = 2
    /\ BagCardinality(events) = MaxRows - 1
    /\ \E r \in DOMAIN events : r.user_id # last.userId /\ r.timestamp = 1
    /\ \A r \in DOMAIN events : r.user_id # last.userId

\* ------------------------------------------------------------- updateSession
\* updates = [name, description, tags], tags is <<>> when missing and
\* <<list>> when present
updateSession_AnyUser(db, userId, sessionId, updates) ==
    IF updates.name = Undefined /\ updates.description = Undefined
       /\ updates.tags = Absent
    THEN db
    ELSE [db EXCEPT !.sessions =
            {IF r.session_id = sessionId
             THEN [r EXCEPT
                     !.name = IF updates.name # Undefined THEN updates.name ELSE @,
                     !.description = IF updates.description # Undefined
                                     THEN updates.description ELSE @,
                     !.tags = IF updates.tags # Absent
                              THEN JSONstringify(updates.tags[1]) ELSE @]
             ELSE r : r \in db.sessions}]

\* UPDATE sessions SET <fields supplied> WHERE user_id = ? AND session_id = ?
updateSession(db, userId, sessionId, updates) ==
    IF updates.name = Undefined /\ updates.description = Undefined
       /\ updates.tags = Absent
    THEN db
    ELSE [db EXCEPT !.sessions =
            {IF r.user_id = userId /\ r.session_id = sessionId
             THEN [r EXCEPT
                     !.name = IF updates.name # Undefined THEN updates.name ELSE @,
                     !.description = IF updates.description # Undefined
                                     THEN updates.description ELSE @,
                     !.tags = IF updates.tags # Absent
                              THEN JSONstringify(updates.tags[1]) ELSE @]
             ELSE r : r \in db.sessions}]

NoUpdates == [name |-> Undefined, description |-> Undefined, tags |-> Absent]
Updates == {NoUpdates,
            [NoUpdates EXCEPT !.name = "m"],
            [NoUpdates EXCEPT !.description = "about", !.tags = <<<<>>>>]}

\* PUT /api/v1/sessions/:sessionId
UpdateSession(U) ==
    /\ last = Idle
    /\ \E u \in U, t \in 1..(now + 1), updates \in Updates :
          LET db == updateSession(SessionStore, u, NewSessionId(t), updates)
          IN /\ sessions' = db.sessions
             /\ session_windows' = db.session_windows
             /\ session_tabs' = db.session_tabs
             /\ sqlite_sequence' = db.sqlite_sequence
             /\ last' = [op |-> "updateSession", userId |-> u,
                         sessionId |-> NewSessionId(t), updates |-> updates,
                         threw |-> FALSE, result |-> [updated |-> TRUE]]
    /\ UNCHANGED <<now, syncVars, conn>>

\* ------------------------------------------------------------- calls sharing the connection
\* processEvents and createSession suspend at every await; the statements of
\* the other requests run on the same connection in between.  A statement
\* issued while a transaction is open on the connection runs inside it, and
\* ROLLBACK restores every table to its content at BEGIN.
Closed == [open |-> FALSE]

Tables ==
    [events |-> events, markers |-> markers, restorations |-> restorations,
     sessions |-> sessions, session_windows |-> session_windows,
     session_tabs |-> session_tabs, sqlite_sequence |-> sqlite_sequence]

IsCall(call, op) == "op" \in DOMAIN call /\ call.op = op
InFlight(call) == call.pc \notin {"free", "done"}

\* the call is over: it resolves with result or rejects with it
Done(call, threw, result) ==
    [op |-> call.op, pc |-> "done", userId |-> call.userId,
     instanceId |-> call.instanceId, request |-> call.request,
     began |-> call.began, ended |-> call.ended,
     threw |-> threw, result |-> result]

\* BEGIN TRANSACTION: rejected when a transaction is open on the connection
\* ("cannot start a transaction within a transaction")
BeginCall(c, call, first) ==
    IF conn.open
    THEN /\ conn' = conn
         /\ inflight' = [inflight EXCEPT ![c] =
               Done(call @@ [began |-> FALSE, ended |-> 0], TRUE, [error |-> "begin"])]
    ELSE /\ conn' = [open |-> TRUE, saved |-> Tables]
         /\ inflight' = [inflight EXCEPT ![c] =
               call @@ [pc |-> first, began |-> TRUE, ended |-> 0]]

\* COMMIT: rejected by the store (the transaction stays open) or for want of
\* an open transaction; the catch block then issues ROLLBACK
CommitCall(c, rejected, result) ==
    LET call == inflight[c]
    IN IF rejected \/ ~conn.open
       THEN /\ conn' = conn
            /\ inflight' = [inflight EXCEPT ![c] = [call EXCEPT !.pc = "rollback"]]
       ELSE /\ conn' = Closed
            /\ inflight' = [inflight EXCEPT ![c] =
                  Done([call EXCEPT !.ended = @ + 1], FALSE, result)]

\* ROLLBACK, then throw error: every table is as it was at BEGIN
RollbackCall(c) ==
    LET call == inflight[c]
    IN IF conn.open
       THEN /\ conn' = Closed
            /\ events' = conn.saved.events
            /\ markers' = conn.saved.markers
            /\ restorations' = conn.saved.restorations
            /\ sessions' = conn.saved.sessions
            /\ session_windows' = conn.saved.session_windows
            /\ session_tabs' = conn.saved.session_tabs
            /\ sqlite_sequence' = conn.saved.sqlite_sequence
            /\ inflight' = [inflight EXCEPT ![c] =
                  Done([call EXCEPT !.ended = @ + 1], TRUE, [error |-> "rolled back"])]
       ELSE /\ UNCHANGED <<conn, events, markers, restorations, sessions,
                           session_windows, session_tabs, sqlite_sequence>>
            /\ inflight' = [inflight EXCEPT ![c] =
                  Done(call, TRUE, [error |-> "rollback"])]

\* --- processEvents, one action per statement
\* the loop moves on to the next event, or to the marker update
AfterEvent(call) ==
    [call EXCEPT !.k = @ + 1,
                 !.pc = IF call.k + 1 <= Len(call.request.events)
                        THEN "event" ELSE "marker"]

\* processEvents is called: await this.dbRun("BEGIN TRANSACTION")
PeBegin(c, p, evts, hard) ==
    /\ inflight[c] = Free
    /\ BeginCall(c, [op |-> "processEvents", userId |-> p[1], instanceId |-> p[2],
                     request |-> [events |-> evts, hard |-> hard],
                     k |-> 1, processed |-> 0, duplicates |-> 0],
                 IF Len(evts) > 0 THEN "event" ELSE "commit")
    /\ UNCHANGED <<events, markers, restorations, last, asked, seen, sessionVars>>

\* const exists = await this.dbGet(SELECT id FROM events ...)
PeSelect(c) ==
    /\ IsCall(inflight[c], "processEvents") /\ inflight[c].pc = "event"
    /\ LET call == inflight[c]
           event == call.request.events[call.k]
       IN /\ Truthy(event.documentId)
          /\ inflight' = [inflight EXCEPT ![c] =
                IF EventExists(events, call.instanceId, event.documentId)
                THEN AfterEvent([call EXCEPT !.duplicates = @ + 1])
                ELSE [call EXCEPT !.pc = "insert"]]
    /\ UNCHANGED <<events, markers, restorations, last, asked, seen, sessionVars, conn>>

\* await this.insertEvent(userId, instanceId, event); processed++
PeInsert(c) ==
    /\ IsCall(inflight[c], "processEvents")
    /\ LET call == inflight[c]
       IN /\ \/ call.pc = "insert"
             \/ call.pc = "event" /\ ~Truthy(call.request.events[call.k].documentId)
          /\ BagCardinality(events) < MaxRows
          /\ events' = events (+) SetToBag({EventRow(call.userId, call.instanceId,
                                                     call.request.events[call.k])})
          /\ inflight' = [inflight EXCEPT ![c] =
                AfterEvent([call EXCEPT !.processed = @ + 1])]
    /\ UNCHANGED <<markers, restorations, last, asked, seen, sessionVars, conn>>

\* await this.updateMarker(userId, instanceId, maxTimestamp)
PeMarker(c) ==
    /\ IsCall(inflight[c], "processEvents") /\ inflight[c].pc = "marker"
    /\ LET call == inflight[c]
       IN /\ markers' = updateMarker(markers, call.userId, call.instanceId,
                                     MathMax(call.request.events))
          /\ inflight' = [inflight EXCEPT ![c] = [call EXCEPT !.pc = "commit"]]
    /\ UNCHANGED <<events, restorations, last, asked, seen, sessionVars, conn>>

\* await this.dbRun("COMMIT"), then return the SyncResult
PeCommit(c) ==
    /\ IsCall(inflight[c], "processEvents") /\ inflight[c].pc = "commit"
    /\ LET call == inflight[c]
       IN CommitCall(c, call.request.hard = "commit",
                     [instanceId |-> call.instanceId,
                      eventsReceived |-> Len(call.request.events),
                      eventsProcessed |-> call.processed,
                      duplicateCount |-> call.duplicates,
                      restorationMappings |-> 0,
                      message |-> SyncMessage(<<>>)])
    /\ UNCHANGED <<events, markers, restorations, last, asked, seen, sessionVars>>

\* the catch block that leaves without ROLLBACK
PeRollback_Skip(c) ==
    /\ IsCall(inflight[c], "processEvents") /\ inflight[c].pc = "rollback"
    /\ inflight' = [inflight EXCEPT ![c] =
          Done(inflight[c], TRUE, [error |-> "commit"])]
    /\ UNCHANGED <<events, markers, restorations, last, asked, seen, sessionVars, conn>>

\* catch (error) { await this.dbRun("ROLLBACK"); throw error; }
PeRollback(c) ==
    /\ IsCall(inflight[c], "processEvents") /\ inflight[c].pc = "rollback"
    /\ RollbackCall(c)
    /\ UNCHANGED <<last, asked, seen, now>>

\* --- createSession, one action per INSERT (with the SELECT reading its id)
\* the loops move on to the next tab, the next window, or to COMMIT
AfterTab(call) ==
    LET windows == call.request.sessionData.windows
    IN IF call.t + 1 <= Len(windows[call.w].tabs)
       THEN [call EXCEPT !.t = @ + 1]
       ELSE [call EXCEPT !.w = @ + 1, !.t = 1,
                         !.pc = IF call.w + 1 <= Len(windows)
                                THEN "window" ELSE "commit"]

\* createSession is called: the sessionId is generated, then
\* await this.dbRun('BEGIN TRANSACTION')
CsBegin(c, u, instanceId, sessionData) ==
    /\ inflight[c] = Free
    /\ now < MaxSessions
    /\ now' = now + 1
    /\ BeginCall(c, [op |-> "createSession", userId |-> u, instanceId |-> instanceId,
                     request |-> [sessionData |-> sessionData,
                                  sessionId |-> NewSessionId(now + 1)],
                     session |-> 0, sessionWindow |-> 0, w |-> 1, t |-> 1],
                 "session")
    /\ UNCHANGED <<events, markers, restorations, last, asked, seen, sessions,
                   session_windows, session_tabs, sqlite_sequence>>

\* INSERT INTO sessions, then SELECT id FROM sessions WHERE session_id = ?
CsSession(c) ==
    /\ IsCall(inflight[c], "createSession") /\ inflight[c].pc = "session"
    /\ LET call == inflight[c]
           id == sqlite_sequence.sessions + 1
           stored == sessions \cup
                       {SessionRow(id, call.userId, call.instanceId,
                                   call.request.sessionData, call.request.sessionId,
                                   call.request.sessionId[2])}
           session == FirstRow({r \in stored : r.session_id = call.request.sessionId})
       IN /\ sessions' = stored
          /\ sqlite_sequence' = [sqlite_sequence EXCEPT !.sessions = id]
          /\ inflight' = [inflight EXCEPT ![c] =
                [call EXCEPT !.session = session.id,
                             !.pc = IF Len(call.request.sessionData.windows) > 0
                                    THEN "window" ELSE "commit"]]
    /\ UNCHANGED <<events, markers, restorations, last, asked, seen,
                   session_windows, session_tabs, now, conn>>

\* INSERT INTO session_windows, then SELECT id FROM session_windows
CsWindow(c) ==
    /\ IsCall(inflight[c], "createSession") /\ inflight[c].pc = "window"
    /\ LET call == inflight[c]
           window == call.request.sessionData.windows[call.w]
           id == sqlite_sequence.session_windows + 1
           stored == session_windows \cup
                       {WindowRow(id, call.session, window, call.w - 1)}
           sessionWindow == FirstRow({w \in stored : /\ w.session_id = call.session
                                                     /\ w.window_order = call.w - 1})
       IN /\ session_windows' = stored
          /\ sqlite_sequence' = [sqlite_sequence EXCEPT !.session_windows = id]
          /\ inflight' = [inflight EXCEPT ![c] =
                IF Len(window.tabs) > 0
                THEN [call EXCEPT !.sessionWindow = sessionWindow.id, !.pc = "tab"]
                ELSE [call EXCEPT !.w = @ + 1,
                        !.pc = IF call.w + 1 <= Len(call.request.sessionData.windows)
                               THEN "window" ELSE "commit"]]
    /\ UNCHANGED <<events, markers, restorations, last, asked, seen,
                   sessions, session_tabs, now, conn>>

\* INSERT INTO session_tabs: a tab without url violates NOT NULL
CsTab(c) ==
    /\ IsCall(inflight[c], "createSession") /\ inflight[c].pc = "tab"
    /\ LET call == inflight[c]
           tab == call.request.sessionData.windows[call.w].tabs[call.t]
           id == sqlite_sequence.session_tabs + 1
       IN IF ~Truthy(tab.url)
          THEN /\ inflight' = [inflight EXCEPT ![c] = [call EXCEPT !.pc = "rollback"]]
               /\ UNCHANGED <<session_tabs, sqlite_sequence>>
          ELSE /\ session_tabs' = session_tabs \cup {TabRow(id, call.sessionWindow, tab)}
               /\ sqlite_sequence' = [sqlite_sequence EXCEPT !.session_tabs = id]
               /\ inflight' = [inflight EXCEPT ![c] = AfterTab(call)]
    /\ UNCHANGED <<events, markers, restorations, last, asked, seen,
                   sessions, session_windows, now, conn>>

\* await this.dbRun('COMMIT'), then return the session
CsCommit(c) ==
    /\ IsCall(inflight[c], "createSession") /\ inflight[c].pc = "commit"
    /\ LET call == inflight[c]
       IN CommitCall(c, FALSE,
                     [sessionId |-> call.request.sessionId,
                      name |-> call.request.sessionData.name])
    /\ UNCHANGED <<events, markers, restorations, last, asked, seen, sessionVars>>

\* catch (error) { await this.dbRun('ROLLBACK'); throw error; }
CsRollback(c) ==
    /\ IsCall(inflight[c], "createSession") /\ inflight[c].pc = "rollback"
    /\ RollbackCall(c)
    /\ UNCHANGED <<last, asked, seen, now>>

\* the route answers: res.json or res.status(500)
Return(c) == GetMarkerReturn(c)

\* what the requests sharing the connection send
TxPairs == {Focus, <<1, "I2">>}
TxBatches == {<<[documentId |-> "d1", timestamp |-> 1]>>}
OneTabSession == Session(<<Window(<<5>>, <<Tab(<<3>>, <<0>>, "u")>>)>>, <<1>>, <<1>>)
NoUrlSession == Session(<<Window(<<5>>, <<Tab(<<3>>, <<0>>, Undefined)>>)>>, <<1>>, <<1>>)

\* a request takes the first free slot (the slots are interchangeable)
FirstFree(c) == c = "a" \/ inflight["a"] # Free

\* uploads of two instances and session captures overlapping on the connection
TxNext ==
    \/ \E c \in Slots, p \in TxPairs, evts \in TxBatches, hard \in {"none", "commit"} :
          FirstFree(c) /\ PeBegin(c, p, evts, hard)
    \/ \E c \in Slots : PeSelect(c)
    \/ \E c \in Slots : PeInsert(c)
    \/ \E c \in Slots : PeMarker(c)
    \/ \E c \in Slots : PeCommit(c)
    \/ \E c \in Slots : PeRollback(c)
    \/ \E c \in Slots, sessionData \in {OneTabSession, NoUrlSession} :
          FirstFree(c) /\ CsBegin(c, 1, "I2", sessionData)
    \/ \E c \in Slots : CsSession(c)
    \/ \E c \in Slots : CsWindow(c)
    \/ \E c \in Slots : CsTab(c)
    \/ \E c \in Slots : CsCommit(c)
    \/ \E c \in Slots : CsRollback(c)
    \/ \E c \in Slots : Return(c)

TxSpec == Init /\ [][TxNext]_vars

\* session captures overlapping with the requests that open no transaction
RollbackNext ==
    \/ \E c \in Slots, sessionData \in {OneTabSession, NoUrlSession} :
          FirstFree(c) /\ CsBegin(c, 1, "I2", sessionData)
    \/ \E c \in Slots : CsSession(c)
    \/ \E c \in Slots : CsWindow(c)
    \/ \E c \in Slots : CsTab(c)
    \/ \E c \in Slots : CsCommit(c)
    \/ \E c \in Slots : CsRollback(c)
    \/ \E c \in Slots : FirstFree(c) /\ GetMarkerSelect(c, Focus)
    \/ \E c \in Slots : GetMarkerInsert(c)
    \/ \E c \in Slots : GetMarkerCount(c)
    \/ \E c \in Slots : Return(c)
    \/ UpdateSession({1})
    \/ DeleteSession({1})
    \/ Respond

RollbackSpec == Init /\ [][RollbackNext]_vars

\* what the steps below read of a call suspended on the connection
Transactional(call) == IsCall(call, "processEvents") \/ IsCall(call, "createSession")

\* the call fails when it runs with no other request on the connection
FailsAlone(call) ==
    IF call.op = "processEvents" THEN call.request.hard = "commit"
    ELSE HasBadTab(call.request.sessionData)

\* C23 -- Instances are independent under interleaving: a processEvents or
\* createSession call for one instance that finishes while a processEvents
\* call for a different instance is in progress on the connection ends as it
\* would have ended alone: it throws only for a failure of its own, and the
\* events of a batch that did not fail are then stored for its instance.
C23_Step ==
    \A c, d \in Slots :
        ( /\ c # d
          /\ inflight[c].pc # "done" /\ inflight'[c].pc = "done"
          /\ Transactional(inflight'[c])
          /\ IsCall(inflight[d], "processEvents") /\ InFlight(inflight[d])
          /\ inflight[d].instanceId # inflight'[c].instanceId )
        => /\ inflight'[c].threw <=> FailsAlone(inflight'[c])
           /\ (inflight'[c].op = "processEvents" /\ ~FailsAlone(inflight'[c]))
                => \A k \in DOMAIN inflight'[c].request.events :
                      EventExists(events', inflight'[c].instanceId,
                                  inflight'[c].request.events[k].documentId)

C23_InstancesIndependent == [][C23_Step]_vars

\* C24 -- Every transaction begun by a processEvents or createSession call
\* is ended by that call with exactly one COMMIT or ROLLBACK before it returns
\* or throws: a finished call that began a transaction ended one, a finished
\* call whose BEGIN was rejected ended none, and a transaction open on the
\* connection belongs to a call still in progress.
C24_TransactionsEnded ==
    /\ \A c \in Slots :
          (inflight[c].pc = "done" /\ Transactional(inflight[c]))
          => inflight[c].ended = IF inflight[c].began THEN 1 ELSE 0
    /\ conn.open
         => \E c \in Slots :
               /\ Transactional(inflight[c]) /\ InFlight(inflight[c])
               /\ inflight[c].began /\ inflight[c].ended = 0
               /\ \A d \in Slots \ {c} :
                     ~(Transactional(inflight[d]) /\ InFlight(inflight[d]))

\* an upload whose COMMIT the store rejected has rolled back, a session
\* capture that overlapped with it was rejected at BEGIN
C24_Witness ==
    \E c, d \in Slots :
        /\ IsCall(inflight[c], "processEvents") /\ inflight[c].pc = "done"
        /\ inflight[c].threw /\ inflight[c].began /\ inflight[c].ended = 1
        /\ IsCall(inflight[d], "createSession") /\ inflight[d].pc = "done"
        /\ inflight[d].threw /\ ~inflight[d].began
        /\ ~conn.open
        /\ BagCardinality(events) = 1

\* a getMarker call for the pair of marker row m has not returned yet
MarkerPending(m) ==
    \E d \in Slots :
        /\ inflight[d].pc \in {"insert", "countAll", "count"}
        /\ inflight[d].userId = m.user_id /\ inflight[d].instanceId = m.instance_id

\* C29 -- A rollback undoes only the writes of the call that issued it: the
\* ROLLBACK of a createSession keeps every marker row a finished getMarker
\* created, the events, and every row of other sessions as an updateSession
\* or deleteSession left it (deleted ones stay deleted); the ROLLBACK of a
\* processEvents keeps the session tables and the markers of other
\* (user, instance) pairs.
C29_Step ==
    \A c \in Slots :
        LET call == inflight[c]
        IN ( /\ Transactional(call) /\ call.pc = "rollback"
             /\ inflight'[c].pc = "done" )
           => IF call.op = "createSession"
              THEN /\ \A m \in markers : ~MarkerPending(m) => m \in markers'
                   /\ events' = events
                   /\ \A r \in sessions : r.session_id # call.request.sessionId
                                          => r \in sessions'
                   /\ sessions' \subseteq sessions
              ELSE /\ sessions' = sessions
                   /\ session_windows' = session_windows
                   /\ session_tabs' = session_tabs
                   /\ \A m \in markers :
                         ( /\ <<m.user_id, m.instance_id>> # <<call.userId, call.instanceId>>
                           /\ ~MarkerPending(m) )
                         => m \in markers'

C29_RollbackUndoesOwnWrites == [][C29_Step]_vars

\* ------------------------------------------------------------- uploads without documentId
\* one client uploading batches in which events lack a documentId, sending
\* each batch a second time
DoclessBatches ==
    SeqsUpTo([documentId : {Undefined, "d1"}, timestamp : Timestamps], MaxBatch) \ {<<>>}

ServeDocless(evts, prior) ==
    LET r == processEvents(Store, Focus[2], Focus[1], evts, <<>>, NoFault(evts, <<>>))
    IN /\ BagCardinality(r.events) <= 2 * MaxBatch
       /\ events' = r.events
       /\ markers' = r.markers
       /\ restorations' = r.restorations
       /\ last' = [op |-> "processEvents", userId |-> Focus[1], instanceId |-> Focus[2],
                   events |-> evts, restorationMetadata |-> <<>>,
                   fault |-> NoFault(evts, <<>>),
                   threw |-> r.threw, result |-> r.result, prior |-> prior]
       /\ UNCHANGED <<asked, seen, inflight, sessionVars, conn>>

UploadDocless ==
    /\ last = Idle
    /\ \E evts \in DoclessBatches : ServeDocless(evts, NoPrior)

\* the payload just sent is sent again
ReuploadDocless ==
    /\ last.op = "processEvents" /\ last.prior = NoPrior
    /\ ServeDocless(last.events, last.result)

DoclessNext ==
    \/ UploadDocless
    \/ ReuploadDocless
    \/ GetMarker({Focus})
    \/ Respond

DoclessSpec == Init /\ [][DoclessNext]_vars

\* the events of call l that carry no documentId
Docless(l) == {k \in DOMAIN l.events : DocOf(l, k) = Undefined}
NullRows(evs, l) ==
    BagCardinality([r \in {x \in DOMAIN evs : /\ x.user_id = l.userId
                                              /\ x.instance_id = l.instanceId
                                              /\ x.document_id = Null}
                       |-> evs[r]])

\* C25 -- An event without a documentId is never treated as a duplicate: every
\* upload of it adds an event row and counts it as processed, so a batch of N
\* events without documentId reports eventsProcessed = N, duplicateCount = 0
\* on every upload, the first and the repeated one, and adds N rows each time.
C25_Step ==
    LET l == last'
        N == Len(l.events)
    IN (l.op = "processEvents" /\ FaultFree(l))
       => /\ ~l.threw
          /\ l.result.eventsProcessed >= Cardinality(Docless(l))
          /\ l.result.duplicateCount <= N - Cardinality(Docless(l))
          /\ NullRows(events', l) = NullRows(events, l) + Cardinality(Docless(l))
          /\ Cardinality(Docless(l)) = N
               => /\ l.result.eventsProcessed = N
                  /\ l.result.duplicateCount = 0
                  /\ BagCardinality(events') = BagCardinality(events) + N

C25_DoclessNeverDuplicate == [][C25_Step]_vars

\* a batch of MaxBatch events without documentId was uploaded twice
C25_Witness ==
    /\ last.op = "processEvents" /\ ~last.threw
    /\ Len(last.events) = MaxBatch
    /\ \A k \in DOMAIN last.events : last.events[k].documentId = Undefined
    /\ last.prior # NoPrior
    /\ last.prior.eventsProcessed = MaxBatch /\ last.prior.duplicateCount = 0
    /\ last.result.eventsProcessed = MaxBatch /\ last.result.duplicateCount = 0
    /\ BagCardinality(events) = 2 * MaxBatch

\* ------------------------------------------------------------- marker counts
\* every (user, instance) uploading events without documentId in any
\* timestamp order and asking for its marker
CountBatches == SeqsUpTo([documentId : {Undefined}, timestamp : Timestamps], 1)

CountNext ==
    \/ GetMarker(Pairs)
    \/ ProcessEvents(Pairs, CountBatches, NoMeta, FALSE)
    \/ Respond

CountSpec == Init /\ [][CountNext]_vars

\* the stored events of pair p, and those with a timestamp above t
StoredOf(evs, p) ==
    {r \in DOMAIN evs : r.user_id = p[1] /\ r.instance_id = p[2]}
NumberOf(evs, rows) == BagCardinality([r \in rows |-> evs[r]])

\* C26 -- getMarker's eventCountToSync is the number of stored events of its
\* (user, instance) when it creates the marker, and otherwise the number of
\* stored events of its (user, instance) whose timestamp is strictly greater
\* than the stored lastEventTimestamp; events of other users or instances are
\* never counted.
C26_Step ==
    LET l == last'
        p == <<l.userId, l.instanceId>>
        mine == StoredOf(events, p)
    IN l.op = "getMarker"
       => IF MarkerOf(markers, p) = {}
          THEN /\ l.result.firstSync
               /\ MarkerOf(markers', p) # {}
               /\ l.result.eventCountToSync = NumberOf(events, mine)
          ELSE \A m \in MarkerOf(markers, p) :
                  /\ ~l.result.firstSync
                  /\ l.result.lastEventTimestamp = m.last_event_timestamp
                  /\ l.result.eventCountToSync =
                       NumberOf(events, {r \in mine :
                                           r.timestamp > m.last_event_timestamp})

C26_EventCountToSync == [][C26_Step]_vars

\* the marker is at the older of two stored events of the pair: one is counted
C26_Witness ==
    /\ last.op = "getMarker" /\ ~last.result.firstSync
    /\ last.result.lastEventTimestamp = 1
    /\ last.result.eventCountToSync = 1
    /\ \E r \in StoredOf(events, <<last.userId, last.instanceId>>) : r.timestamp = 1
    /\ \E r \in StoredOf(events, <<last.userId, last.instanceId>>) : r.timestamp = 2

\* ------------------------------------------------------------- result accounting
\* C27 -- every processEvents call that returns reports eventsReceived = the
\* length of the supplied batch = eventsProcessed + duplicateCount + the number
\* of per-event failures; eventsProcessed is the number of event rows the call
\* added; and the message is "Events synced successfully" exactly when no
\* per-event failure occurred.
C27_Step ==
    LET l == last'
        added == BagCardinality(events') - BagCardinality(events)
        failed == Len(l.events) - l.result.eventsProcessed - l.result.duplicateCount
    IN (l.op = "processEvents" /\ ~l.threw)
       => /\ l.result.eventsReceived = Len(l.events)
          /\ l.result.eventsProcessed >= 0 /\ l.result.duplicateCount >= 0
          /\ failed >= 0
          /\ l.result.message.N = failed
          /\ l.result.eventsProcessed = added
          /\ events \sqsubseteq events'
          /\ (l.result.message.text = "Events synced successfully") <=> (failed = 0)
          /\ (l.result.message.text = "Processed with N errors") <=> (failed > 0)

C27_ResultAccounting == [][C27_Step]_vars

\* a returned call with one event stored and one event failed
C27_Witness ==
    /\ last.op = "processEvents" /\ ~last.threw
    /\ Len(last.events) = 2
    /\ last.result.eventsProcessed = 1
    /\ last.result.message.N = 1
    /\ last.result.message.text = "Processed with N errors"

\* ------------------------------------------------------------- users sharing an instance id
\* the events of a batch that repeat a documentId the calling user has stored
\* for the instance, or one carried by an earlier event of the same batch
OwnDuplicates(evs, userId, instanceId, evts) ==
    {k \in DOMAIN evts :
        /\ Truthy(evts[k].documentId)
        /\ \/ \E r \in DOMAIN evs :
                 /\ r.user_id = userId /\ r.instance_id = instanceId
                 /\ r.document_id = evts[k].documentId
           \/ \E j \in 1..(k - 1) : evts[j].documentId = evts[k].documentId}

\* C28 -- the outcome of processEvents for a user depends only on the events
\* stored for that user: an event is counted as duplicate and skipped only when
\* its documentId is stored for the calling user (or repeats within the batch),
\* never because another user stored the same instanceId and documentId.
C28_Step ==
    LET l == last'
        own == OwnDuplicates(events, l.userId, l.instanceId, l.events)
    IN (l.op = "processEvents" /\ ~l.threw)
       => /\ l.result.duplicateCount = Cardinality(own)
          /\ l.result.eventsProcessed = Len(l.events) - Cardinality(own)
          /\ \A k \in DOMAIN l.events \ own :
                \E r \in DOMAIN events' :
                   /\ r.user_id = l.userId /\ r.instance_id = l.instanceId
                   /\ r.document_id = OrNull(l.events[k].documentId)

C28_DedupPerUser == [][C28_Step]_vars

\* ------------------------------------------------------------- session owners
\* two users creating sessions and updating or deleting by every id generated
\* so far and by an unknown one
OwnerNext ==
    \/ CreateSession(Users, {EmptySession, OneTabSession}, FALSE)
    \/ UpdateSession(Users)
    \/ DeleteSession(Users)
    \/ Respond

OwnerSpec == Init /\ [][OwnerNext]_vars

\* the session rows a call by userId for sessionId addresses
Addressed(userId, sessionId) ==
    {r \in sessions : r.user_id = userId /\ r.session_id = sessionId}

\* C30 -- updateSession and deleteSession called by a user change only the
\* sessions that user owns under the given sessionId: called with a sessionId
\* owned by another user or with an unknown one they change no row and return
\* without error, and updateSession with no name, description or tags changes
\* nothing.
C30_Step ==
    LET l == last'
        target == Addressed(l.userId, l.sessionId)
        keptWindows == {w \in session_windows :
                           \A t \in target : w.session_id # t.id}
        keptTabs == {x \in session_tabs :
                        \E w \in keptWindows : x.session_window_id = w.id}
    IN l.op \in {"updateSession", "deleteSession"}
       => /\ ~l.threw
          /\ sessions \ target \subseteq sessions'
          /\ \A r \in sessions' \ (sessions \ target) :
                \E t \in target : /\ r.id = t.id /\ r.user_id = t.user_id
                                  /\ r.session_id = t.session_id
          /\ keptWindows \subseteq session_windows'
          /\ session_windows' \subseteq session_windows
          /\ keptTabs \subseteq session_tabs'
          /\ session_tabs' \subseteq session_tabs
          /\ target = {} => UNCHANGED sessionVars
          /\ (l.op = "updateSession" /\ l.updates = NoUpdates)
                => UNCHANGED sessionVars
          /\ l.op = "updateSession"
                => UNCHANGED <<session_windows, session_tabs, sqlite_sequence, now>>

C30_OwnerOnlyChanges == [][C30_Step]_vars

\* a user updated by the id of a session another user owns
C30_Witness ==
    /\ last.op = "updateSession"
    /\ last.updates # NoUpdates
    /\ \E r \in sessions : r.session_id = last.sessionId /\ r.user_id # last.userId
    /\ session_tabs # {}

====
